---- MODULE Spec2Model ----
(***************************************************************************)
(* Attention-flow and session-structure analysis of cognitive-trails.      *)
(*                                                                         *)
(* Strings are sequences of one-character strings so that tokenisation,    *)
(* concatenation and substring search are computed as the code computes    *)
(* them.  Timestamps are integers in milliseconds.  Similarity scores are  *)
(* exact rationals [num, den] compared by cross-multiplication.            *)
(***************************************************************************)
EXTENDS Integers, Sequences, FiniteSets, TLC

VARIABLES pc, historyItems, sortedHistory, domainData, connections,
          visitEvents, i, failedPairs, transitionLog, loading, transitions,
          chains, chainRuns, focusSessions, result,
          similaritySamples, thresholds, message, posted, persisted,
          cache, computation,
          complexityByHour, temporalAnalysis, graphMetrics, insights, runIndex,
          previous,
          lru, store, cacheCall, cacheHistory,
          requests, replies

(* The state of the embedding worker: its rolling similarity samples, the
   thresholds of its SEMANTIC_CONFIG, the message it handled last, the reply
   it posted, and the thresholds record of the semanticMeta store *)
workerVars == <<similaritySamples, thresholds, message, posted, persisted>>

(* The state of the LocalSemanticAnalyzer instance: its result cache, and
   the signals and the score of the computation it made last *)
analyzerVars == <<cache, computation>>

(* The embedding cache: the Map of the in-memory LRU in its insertion order,
   the records of the 'vectors' object store, the call made last with what it
   returned, and a history of the calls: the vector each key was last stored
   with, the time each key was last set or found in memory, and a clock *)
cacheVars == <<lru, store, cacheCall, cacheHistory>>

(* The cognitive-analysis fields of the visualizer instance that are not
   segmentation results, the number of runs of loadAndVisualize on the
   instance, and the input and the report of the run before the current one *)
reportVars == <<complexityByHour, temporalAnalysis, graphMetrics, insights,
                runIndex, previous>>

(* The messages the worker has received, each with the state of its call of
   onmessage, and the messages the worker has posted, in order *)
protocolVars == <<requests, replies>>

vars == <<pc, historyItems, sortedHistory, domainData, connections,
          visitEvents, i, failedPairs, transitionLog, loading, transitions,
          chains, chainRuns, focusSessions, result,
          similaritySamples, thresholds, message, posted, persisted,
          cache, computation,
          complexityByHour, temporalAnalysis, graphMetrics, insights, runIndex,
          previous,
          lru, store, cacheCall, cacheHistory,
          requests, replies>>

----------------------------------------------------------------------------
(* Bounds                                                                  *)

MaxLen == 3

(* The number of classifyTransition messages one run sends to the worker *)
MaxCalls == 3

(* The number of scores the cache of the analyzer holds *)
MaxCached == 2

(* Runs of loadAndVisualize on one visualizer instance *)
MaxRuns == 3

(* Calls of getEmbedding and setEmbedding in one run of the cache *)
MaxCacheCalls == 3

(* Visits after the first visit of each domain, in the histories the graph
   metrics are followed on *)
MaxRevisits == 3

(* Messages sent to the worker *)
MaxMessages == 2

----------------------------------------------------------------------------
(* Generic helpers                                                         *)

Rat(n, d) == [num |-> n, den |-> d]

RatGeq(a, b) == a.num * b.den >= b.num * a.den

RatGt(a, b) == a.num * b.den > b.num * a.den

RatIsZero(a) == a.num = 0

RatMin(a, b) == IF RatGeq(a, b) THEN b ELSE a

(* String.prototype.includes: sub occurs in s as a contiguous substring *)
Includes(s, sub) ==
  \E k \in 0..(Len(s) - Len(sub)) : SubSeq(s, k + 1, k + Len(sub)) = sub

(* String.prototype.replace(pattern, repl) with a string pattern: only the
   first occurrence is replaced *)
ReplaceFirst(s, pat, repl) ==
  IF ~Includes(s, pat) THEN s
  ELSE LET k == CHOOSE k \in 0..(Len(s) - Len(pat)) :
                  /\ SubSeq(s, k + 1, k + Len(pat)) = pat
                  /\ \A j \in 0..(k - 1) : SubSeq(s, j + 1, j + Len(pat)) # pat
       IN SubSeq(s, 1, k) \o repl \o SubSeq(s, k + Len(pat) + 1, Len(s))

(* String.prototype.toLowerCase on the characters the inputs use *)
LowerChar(ch) == IF ch = "C" THEN "c" ELSE ch

ToLowerCase(s) == [k \in 1..Len(s) |-> LowerChar(s[k])]

(* \w of the regular expressions, on the characters the inputs use *)
IsWordChar(ch) == ch \notin {"-", ".", " ", ":", "/"}

(* s.match(/\b\w+\b/g) || [] : the maximal runs of word characters, as a set
   (every caller wraps the match list in new Set) *)
RECURSIVE WordRuns(_, _, _)
WordRuns(s, k, cur) ==
  IF k > Len(s) THEN (IF cur = <<>> THEN {} ELSE {cur})
  ELSE IF IsWordChar(s[k]) THEN WordRuns(s, k + 1, Append(cur, s[k]))
  ELSE (IF cur = <<>> THEN {} ELSE {cur}) \cup WordRuns(s, k + 1, <<>>)

MatchWords(s) == WordRuns(s, 1, <<>>)

(* s.split('.').pop() : the part after the last dot, the whole string when
   there is none *)
LastDotPart(s) ==
  IF ~Includes(s, <<".">>) THEN s
  ELSE LET k == CHOOSE k \in 1..Len(s) :
                  s[k] = "." /\ \A j \in (k + 1)..Len(s) : s[j] # "."
       IN SubSeq(s, k + 1, Len(s))

----------------------------------------------------------------------------
(* Inputs: history records {url, title, lastVisitTime}                     *)

Https == <<"h", "t", "t", "p", "s", ":", "/", "/">>

(* A URL is its text (href) and what `new URL(href)` makes of it: either a
   hostname or a TypeError (parses = FALSE) *)
Url(href, parses, hostname) ==
  [href |-> href, parses |-> parses, hostname |-> hostname]

UrlWwwA == Url(Https \o <<"w", "w", "w", ".", "a">>, TRUE, <<"w", "w", "w", ".", "a">>)

UrlRawAA == Url(<<"a", "-", "a">>, FALSE, <<>>)

UrlBA == Url(Https \o <<"b", ".", "a">>, TRUE, <<"b", ".", "a">>)

(* The pages of a history: a URL and the title the browser recorded for it *)
Page(url, title) == [url |-> url, title |-> title]

Pages ==
  {Page(UrlWwwA, <<>>), Page(UrlWwwA, <<"C">>),
   Page(UrlRawAA, <<>>), Page(UrlRawAA, <<"C">>),
   Page(UrlBA, <<>>)}

Times == {0, 300000, 2100001}

Items ==
  {[url |-> p.url, title |-> p.title, lastVisitTime |-> t] :
     p \in Pages, t \in Times}

Histories == UNION {[1..n -> Items] : n \in 0..MaxLen}

(* A history that makes the same transition twice: a -> b.a at once, back,
   and a -> b.a again after more than thirty minutes *)
RepeatedPairHistories ==
  LET visit(url, t) == [url |-> url, title |-> <<>>, lastVisitTime |-> t]
  IN {<<visit(UrlWwwA, 0), visit(UrlBA, 0), visit(UrlWwwA, 300000),
        visit(UrlBA, 2100001)>>}

----------------------------------------------------------------------------
(* Program constants                                                       *)

FILTERED_DOMAINS ==
  { <<"g", "o", "o", "g", "l", "e", ".", "c", "o", "m">>,
    <<"w", "w", "w", ".", "g", "o", "o", "g", "l", "e", ".", "c", "o", "m">>,
    <<"b", "i", "n", "g", ".", "c", "o", "m">>,
    <<"d", "u", "c", "k", "d", "u", "c", "k", "g", "o", ".", "c", "o", "m">> }

TRANSITION_COLORS ==
  [related |-> "#4285f4", topic_shift |-> "#f4b942",
   context_switch |-> "#ea4335", default |-> "#9e9e9e"]

TIME_RELATED == 5 * 60 * 1000

TIME_TOPIC_SHIFT == 30 * 60 * 1000

MAX_GAP == 5 * 60 * 1000

(* SEM_CFG when window.SEMANTIC_CONFIG is not set *)
SEM_CFG == [thresholds |-> [related |-> Rat(70, 100), topicShift |-> Rat(40, 100)]]

----------------------------------------------------------------------------
(* Helpers of the visualizer                                               *)

extractDomain(url) ==
  IF url.parses THEN ReplaceFirst(url.hostname, <<"w", "w", "w", ".">>, <<>>)
  ELSE url.href

IsFiltered(item) ==
  \E d \in FILTERED_DOMAINS : Includes(extractDomain(item.url), d)

(* historyItems.filter(item => !FILTERED_DOMAINS.some(...)) *)
RECURSIVE FilterDomains(_)
FilterDomains(s) ==
  IF s = <<>> THEN <<>>
  ELSE IF ~IsFiltered(Head(s)) THEN <<Head(s)>> \o FilterDomains(Tail(s))
  ELSE FilterDomains(Tail(s))

(* The sort key of the comparators: lastVisitTime of a history record, time
   of a visit event *)
TimeOf(r) == IF "time" \in DOMAIN r THEN r.time ELSE r.lastVisitTime

(* Array.prototype.sort((a,b) => a.time - b.time) : a stable sort *)
RECURSIVE InsertByTime(_, _)
InsertByTime(sorted, x) ==
  IF sorted = <<>> THEN <<x>>
  ELSE IF TimeOf(Head(sorted)) <= TimeOf(x)
       THEN <<Head(sorted)>> \o InsertByTime(Tail(sorted), x)
       ELSE <<x>> \o sorted

RECURSIVE SortByTime(_)
SortByTime(s) ==
  IF s = <<>> THEN <<>>
  ELSE InsertByTime(SortByTime(SubSeq(s, 1, Len(s) - 1)), s[Len(s)])

FilterAndSort(items) == SortByTime(FilterDomains(items))

jaccardSimilarityTokens(a, b) ==
  LET sa == MatchWords(ToLowerCase(a))
      sb == MatchWords(ToLowerCase(b))
      inter == sa \cap sb
      union == sa \cup sb
  IN IF Cardinality(union) # 0 THEN Rat(Cardinality(inter), Cardinality(union))
     ELSE Rat(0, 1)

(* The node of one domain, built by the first loop of processHistoryData *)
RECURSIVE BuildDomainData(_, _)
BuildDomainData(items, acc) ==
  IF items = <<>> THEN acc
  ELSE LET item == Head(items)
           domain == extractDomain(item.url)
           known == \E k \in 1..Len(acc) : acc[k].domain = domain
           withNode == IF known THEN acc
                       ELSE Append(acc, [domain |-> domain, title |-> item.title,
                                         visitCount |-> 0,
                                         lastVisit |-> item.lastVisitTime,
                                         urls |-> {}])
           pos == CHOOSE k \in 1..Len(withNode) : withNode[k].domain = domain
           data == withNode[pos]
           updated == [data EXCEPT !.visitCount = @ + 1,
                                   !.urls = @ \cup {item.url},
                                   !.lastVisit = IF item.lastVisitTime > @
                                                 THEN item.lastVisitTime ELSE @]
       IN BuildDomainData(Tail(items), [withNode EXCEPT ![pos] = updated])

(* visitEvents.push({domain, url, title: item.title || '', time}); id is the
   identity of the pushed object *)
BuildVisitEvents(items) ==
  [k \in 1..Len(items) |->
     [id |-> k, domain |-> extractDomain(items[k].url), url |-> items[k].url,
      title |-> items[k].title, time |-> items[k].lastVisitTime]]

(* `${currentDomain}-${nextDomain}` *)
connectionKey(currentDomain, nextDomain) ==
  currentDomain \o <<"-">> \o nextDomain

HasKey(conns, key) == \E k \in 1..Len(conns) : conns[k].key = key

KeyPos(conns, key) == CHOOSE k \in 1..Len(conns) : conns[k].key = key

calculateBasicSimilarity(a, b) ==
  LET aTitle == ToLowerCase(a.title)
      bTitle == ToLowerCase(b.title)
      aTld == LastDotPart(extractDomain(a.url))
      bTld == LastDotPart(extractDomain(b.url))
      tld == IF aTld = bTld THEN 1 ELSE 0          \* 0.2 = 1/5
      aWords == MatchWords(aTitle)
      bWords == MatchWords(bTitle)
      inter == Cardinality(aWords \cap bWords)
      union == Cardinality(aWords \cup bWords)
      \* similarity = tld/5 + (inter/union) * 4/5
      similarity == IF union > 0 THEN Rat(tld * union + 4 * inter, 5 * union)
                    ELSE Rat(tld, 5)
  IN RatMin(Rat(1, 1), similarity)

(* The try block with a 5-minute window that is open at its end *)
ClassifyStrictWindow(timeDiff, sim) ==
  IF timeDiff < 5 * 60 * 1000 /\ RatGeq(sim, SEM_CFG.thresholds.related)
    THEN "related"
  ELSE IF RatGeq(sim, SEM_CFG.thresholds.topicShift) \/ timeDiff <= 30 * 60 * 1000
    THEN "topic_shift"
  ELSE "context_switch"

(* The classification in the try block of the transition loop *)
ClassifyBySimilarity(timeDiff, sim) ==
  IF timeDiff <= 5 * 60 * 1000 /\ RatGeq(sim, SEM_CFG.thresholds.related)
    THEN "related"
  ELSE IF RatGeq(sim, SEM_CFG.thresholds.topicShift) \/ timeDiff <= 30 * 60 * 1000
    THEN "topic_shift"
  ELSE "context_switch"

(* The classification in the catch block of the transition loop *)
ClassifyAfterFailure(sim) ==
  IF RatGeq(sim, Rat(7, 10)) THEN "related"
  ELSE IF RatGeq(sim, Rat(3, 10)) THEN "topic_shift"
  ELSE "context_switch"

(* A catch block that hands the error on *)
OnSimilarityFailureRethrows(current, next) ==
  [similarity |-> Rat(0, 1), transitionType |-> "context_switch",
   thrown |-> TRUE]

(* What the catch block of the transition loop leaves behind: the similarity
   and the label, or a rethrown error *)
OnSimilarityFailure(current, next) ==
  LET sim == calculateBasicSimilarity(current, next)
  IN [similarity |-> sim, transitionType |-> ClassifyAfterFailure(sim),
      thrown |-> FALSE]

(* The else branch also taking the type and the colour of the latest
   transition *)
RecordConnectionLatestType(conns, currentDomain, nextDomain, transitionType, sim, nextTime) ==
  LET key == connectionKey(currentDomain, nextDomain)
  IN IF ~HasKey(conns, key)
     THEN Append(conns, [key |-> key, source |-> currentDomain,
                         target |-> nextDomain, weight |-> 1,
                         transitionType |-> transitionType,
                         color |-> TRANSITION_COLORS[transitionType],
                         lastTime |-> nextTime, similarity |-> sim])
     ELSE LET pos == KeyPos(conns, key)
              conn == conns[pos]
          IN [conns EXCEPT ![pos] =
                [conn EXCEPT !.weight = @ + 1,
                             !.transitionType = transitionType,
                             !.color = TRANSITION_COLORS[transitionType],
                             !.lastTime = IF nextTime > @ THEN nextTime ELSE @,
                             !.similarity = IF ~RatIsZero(sim) /\ RatGt(sim, @)
                                            THEN sim ELSE @]]

(* connections.set / weight++ of processHistoryData *)
RecordConnection(conns, currentDomain, nextDomain, transitionType, sim, nextTime) ==
  LET key == connectionKey(currentDomain, nextDomain)
  IN IF ~HasKey(conns, key)
     THEN Append(conns, [key |-> key, source |-> currentDomain,
                         target |-> nextDomain, weight |-> 1,
                         transitionType |-> transitionType,
                         color |-> TRANSITION_COLORS[transitionType],
                         lastTime |-> nextTime, similarity |-> sim])
     ELSE LET pos == KeyPos(conns, key)
              conn == conns[pos]
          IN [conns EXCEPT ![pos] =
                [conn EXCEPT !.weight = @ + 1,
                             !.lastTime = IF nextTime > @ THEN nextTime ELSE @,
                             !.similarity = IF ~RatIsZero(sim) /\ RatGt(sim, @)
                                            THEN sim ELSE @]]

----------------------------------------------------------------------------
(* Segmentation: information chains and focus sessions                     *)

(* n/d rounded to the nearest integer, halves up: +x.toFixed(2) of a value
   counted in hundredths *)
RoundDiv(n, d) == (2 * n + d) \div (2 * d)

TitleDomain(e) == e.title \o e.domain

(* The test of detectInformationChains that keeps e in the current chain *)
ChainContinues(prev, e) ==
  LET sim == jaccardSimilarityTokens(TitleDomain(prev), TitleDomain(e))
  IN (e.time - prev.time) <= MAX_GAP /\ RatGt(sim, Rat(3, 10))

(* SessionContinues with the gap compared by < *)
SessionContinuesStrictGap(prev, e) ==
  LET sim == jaccardSimilarityTokens(TitleDomain(prev), TitleDomain(e))
  IN /\ (e.time - prev.time) < MAX_GAP
     /\ (prev.domain = e.domain \/ RatGt(sim, Rat(4, 10)))

(* SessionContinues with the similarity threshold of the chains *)
SessionContinuesChainThreshold(prev, e) ==
  LET sim == jaccardSimilarityTokens(TitleDomain(prev), TitleDomain(e))
  IN /\ (e.time - prev.time) <= MAX_GAP
     /\ (prev.domain = e.domain \/ RatGt(sim, Rat(3, 10)))

(* SessionContinues without the test of the gap *)
SessionContinuesAcrossGaps(prev, e) ==
  LET sim == jaccardSimilarityTokens(TitleDomain(prev), TitleDomain(e))
  IN prev.domain = e.domain \/ RatGt(sim, Rat(4, 10))

(* The test of analyzeFocusSessions that keeps e in the current session *)
SessionContinues(prev, e) ==
  LET sim == jaccardSimilarityTokens(TitleDomain(prev), TitleDomain(e))
  IN /\ (e.time - prev.time) <= MAX_GAP
     /\ (prev.domain = e.domain \/ RatGt(sim, Rat(4, 10)))

(* EmitChain keeping the runs of one event *)
EmitChainKeepsSingletons(out, current) ==
  IF Len(current) >= 1 THEN Append(out, current) ELSE out

(* The chain emitted for a closed run: only runs longer than 1 are kept *)
EmitChain(out, current) ==
  IF Len(current) > 1 THEN Append(out, current) ELSE out

(* The loop of detectInformationChains and its trailing flush; the result is
   the list of `current` arrays handed to summarizeChain *)
RECURSIVE ChainLoop(_, _, _, _)
ChainLoop(events, k, current, out) ==
  IF k > Len(events) THEN EmitChain(out, current)
  ELSE LET e == events[k]
       IN IF current = <<>> THEN ChainLoop(events, k + 1, <<e>>, out)
          ELSE IF ChainContinues(current[Len(current)], e)
               THEN ChainLoop(events, k + 1, Append(current, e), out)
               ELSE ChainLoop(events, k + 1, <<e>>, EmitChain(out, current))

detectInformationChains(events) == ChainLoop(SortByTime(events), 1, <<>>, <<>>)

summarizeChain(events) ==
  LET diff == events[Len(events)].time - events[1].time
      durationMs == IF diff = 0 THEN 1 ELSE diff
  IN [length |-> Len(events),
      durationMinutes |-> RoundDiv(durationMs * 100, 60000),
      scentStrength |-> RoundDiv(Len(events) * 60000 * 100, durationMs)]

(* FlushSession without the trailing push *)
FlushSessionDropsOpen(out, session) == out

(* The session emitted at the end of the events: the open one, if any *)
FlushSession(out, session) ==
  IF Len(session) # 0 THEN Append(out, session) ELSE out

(* The loop of analyzeFocusSessions and its trailing flush; the result is the
   list of `session` arrays handed to summarizeSession *)
RECURSIVE SessionLoop(_, _, _, _)
SessionLoop(events, k, session, out) ==
  IF k > Len(events) THEN FlushSession(out, session)
  ELSE LET e == events[k]
       IN IF session = <<>> THEN SessionLoop(events, k + 1, <<e>>, out)
          ELSE IF SessionContinues(session[Len(session)], e)
               THEN SessionLoop(events, k + 1, Append(session, e), out)
               ELSE SessionLoop(events, k + 1, <<e>>, Append(out, session))

summarizeSession(events) ==
  LET diff == events[Len(events)].time - events[1].time
      durationMs == IF diff = 0 THEN 1 ELSE diff
  IN [durationMinutes |-> RoundDiv(durationMs * 100, 60000),
      pages |-> Len(events),
      events |-> events]

analyzeFocusSessions(events) ==
  LET runs == SessionLoop(SortByTime(events), 1, <<>>, <<>>)
  IN [k \in 1..Len(runs) |-> summarizeSession(runs[k])]

(* calculateTransitionStats *)
calculateTransitionStats(conns) ==
  LET Count(t) == Cardinality({k \in 1..Len(conns) : conns[k].transitionType = t})
  IN [related |-> Count("related"), topic_shift |-> Count("topic_shift"),
      context_switch |-> Count("context_switch"), total |-> Len(conns)]

----------------------------------------------------------------------------
(* LocalSemanticAnalyzer: the four-signal similarity and its result cache  *)

RatEq(a, b) == a.num * b.den = b.num * a.den

RECURSIVE GCD(_, _)
GCD(a, b) == IF b = 0 THEN a ELSE GCD(b, a % b)

(* The fraction in lowest terms *)
RatNorm(a) ==
  LET g == GCD(IF a.num < 0 THEN -a.num ELSE a.num, a.den)
  IN Rat(a.num \div g, a.den \div g)

RatAdd(a, b) == RatNorm(Rat(a.num * b.den + b.num * a.den, a.den * b.den))

(* n/d times a *)
RatScale(a, n, d) == RatNorm(Rat(a.num * n, a.den * d))

(* Math.sqrt on the perfect squares the cosine of the inputs meets; the
   root of a 32-bit integer is below 46341 *)
RECURSIVE SqrtBetween(_, _, _)
SqrtBetween(n, lo, hi) ==
  IF lo >= hi THEN lo
  ELSE LET mid == (lo + hi + 1) \div 2
       IN IF mid * mid <= n THEN SqrtBetween(n, mid, hi)
          ELSE SqrtBetween(n, lo, mid - 1)

Sqrt(n) ==
  CHOOSE r \in {SqrtBetween(n, 0, IF n < 46340 THEN n ELSE 46340)} : r * r = n

(* this.stopWords of the constructor *)
stopWords ==
   {<<"a">>, <<"a", "n">>, <<"a", "n", "d">>, <<"a", "r", "e">>, <<"a", "s">>,
    <<"a", "t">>, <<"b", "e">>, <<"b", "y">>, <<"f", "o", "r">>,
    <<"f", "r", "o", "m">>, <<"h", "a", "s">>, <<"h", "e">>, <<"i", "n">>,
    <<"i", "s">>, <<"i", "t">>, <<"i", "t", "s">>, <<"o", "f">>, <<"o", "n">>,
    <<"t", "h", "a", "t">>, <<"t", "h", "e">>, <<"t", "o">>,
    <<"w", "a", "s">>, <<"w", "i", "l", "l">>, <<"w", "i", "t", "h">>,
    <<"w", "w", "w">>, <<"c", "o", "m">>, <<"o", "r", "g">>,
    <<"n", "e", "t">>, <<"h", "t", "m", "l">>, <<"p", "h", "p">>}

(* this.semanticGroups of the constructor: group name |-> its words *)
semanticGroups ==
  [g \in {"ai_tech", "programming", "career", "social", "news", "shopping", "video", "education"} |->
     CASE g = "ai_tech" ->
            {<<"a", "i">>,
             <<"a", "r", "t", "i", "f", "i", "c", "i", "a", "l">>,
             <<"i", "n", "t", "e", "l", "l", "i", "g", "e", "n", "c", "e">>,
             <<"m", "a", "c", "h", "i", "n", "e">>,
             <<"l", "e", "a", "r", "n", "i", "n", "g">>,
             <<"c", "l", "a", "u", "d", "e">>,
             <<"a", "n", "t", "h", "r", "o", "p", "i", "c">>,
             <<"c", "h", "a", "t", "b", "o", "t">>,
             <<"a", "s", "s", "i", "s", "t", "a", "n", "t">>,
             <<"b", "o", "t">>, <<"n", "e", "u", "r", "a", "l">>,
             <<"m", "o", "d", "e", "l">>}
       [] g = "programming" ->
            {<<"c", "o", "d", "e">>, <<"c", "o", "d", "i", "n", "g">>,
             <<"p", "r", "o", "g", "r", "a", "m", "m", "i", "n", "g">>,
             <<"d", "e", "v", "e", "l", "o", "p", "e", "r">>,
             <<"d", "e", "v", "e", "l", "o", "p", "m", "e", "n", "t">>,
             <<"s", "o", "f", "t", "w", "a", "r", "e">>,
             <<"e", "n", "g", "i", "n", "e", "e", "r">>,
             <<"e", "n", "g", "i", "n", "e", "e", "r", "i", "n", "g">>,
             <<"g", "i", "t", "h", "u", "b">>,
             <<"s", "t", "a", "c", "k", "o", "v", "e", "r", "f", "l", "o", "w">>,
             <<"p", "y", "t", "h", "o", "n">>,
             <<"j", "a", "v", "a", "s", "c", "r", "i", "p", "t">>,
             <<"j", "a", "v", "a">>}
       [] g = "career" ->
            {<<"j", "o", "b">>, <<"j", "o", "b", "s">>,
             <<"c", "a", "r", "e", "e", "r">>,
             <<"c", "a", "r", "e", "e", "r", "s">>,
             <<"e", "m", "p", "l", "o", "y", "m", "e", "n", "t">>,
             <<"w", "o", "r", "k">>,
             <<"p", "r", "o", "f", "e", "s", "s", "i", "o", "n", "a", "l">>,
             <<"l", "i", "n", "k", "e", "d", "i", "n">>,
             <<"i", "n", "d", "e", "e", "d">>,
             <<"r", "e", "s", "u", "m", "e">>,
             <<"h", "i", "r", "i", "n", "g">>,
             <<"s", "a", "l", "a", "r", "y">>}
       [] g = "social" ->
            {<<"s", "o", "c", "i", "a", "l">>,
             <<"f", "a", "c", "e", "b", "o", "o", "k">>,
             <<"t", "w", "i", "t", "t", "e", "r">>,
             <<"i", "n", "s", "t", "a", "g", "r", "a", "m">>,
             <<"n", "e", "t", "w", "o", "r", "k">>,
             <<"n", "e", "t", "w", "o", "r", "k", "i", "n", "g">>,
             <<"c", "o", "m", "m", "u", "n", "i", "t", "y">>,
             <<"d", "i", "s", "c", "u", "s", "s", "i", "o", "n">>,
             <<"f", "o", "r", "u", "m">>, <<"r", "e", "d", "d", "i", "t">>}
       [] g = "news" ->
            {<<"n", "e", "w", "s">>, <<"a", "r", "t", "i", "c", "l", "e">>,
             <<"s", "t", "o", "r", "y">>, <<"r", "e", "p", "o", "r", "t">>,
             <<"j", "o", "u", "r", "n", "a", "l", "i", "s", "m">>,
             <<"m", "e", "d", "i", "a">>, <<"p", "r", "e", "s", "s">>,
             <<"b", "r", "e", "a", "k", "i", "n", "g">>,
             <<"u", "p", "d", "a", "t", "e">>,
             <<"p", "o", "l", "i", "t", "i", "c", "s">>}
       [] g = "shopping" ->
            {<<"s", "h", "o", "p">>,
             <<"s", "h", "o", "p", "p", "i", "n", "g">>, <<"b", "u", "y">>,
             <<"p", "u", "r", "c", "h", "a", "s", "e">>,
             <<"s", "t", "o", "r", "e">>, <<"r", "e", "t", "a", "i", "l">>,
             <<"a", "m", "a", "z", "o", "n">>, <<"e", "b", "a", "y">>,
             <<"p", "r", "o", "d", "u", "c", "t">>,
             <<"p", "r", "i", "c", "e">>}
       [] g = "video" ->
            {<<"v", "i", "d", "e", "o">>, <<"w", "a", "t", "c", "h">>,
             <<"s", "t", "r", "e", "a", "m", "i", "n", "g">>,
             <<"y", "o", "u", "t", "u", "b", "e">>,
             <<"n", "e", "t", "f", "l", "i", "x">>,
             <<"m", "o", "v", "i", "e">>, <<"f", "i", "l", "m">>,
             <<"e", "n", "t", "e", "r", "t", "a", "i", "n", "m", "e", "n", "t">>}
       [] g = "education" ->
            {<<"l", "e", "a", "r", "n">>,
             <<"l", "e", "a", "r", "n", "i", "n", "g">>,
             <<"e", "d", "u", "c", "a", "t", "i", "o", "n">>,
             <<"c", "o", "u", "r", "s", "e">>,
             <<"t", "u", "t", "o", "r", "i", "a", "l">>,
             <<"g", "u", "i", "d", "e">>,
             <<"u", "n", "i", "v", "e", "r", "s", "i", "t", "y">>,
             <<"s", "c", "h", "o", "o", "l">>,
             <<"w", "i", "k", "i", "p", "e", "d", "i", "a">>}]

(* The company groups of companySimilarity *)
companies ==
  <<{<<"a", "n", "t", "h", "r", "o", "p", "i", "c", ".", "c", "o", "m">>,
     <<"c", "l", "a", "u", "d", "e", ".", "a", "i">>,
     <<"d", "o", "c", "s", ".", "a", "n", "t", "h", "r", "o", "p", "i", "c", ".", "c", "o", "m">>,
     <<"c", "o", "n", "s", "o", "l", "e", ".", "a", "n", "t", "h", "r", "o", "p", "i", "c", ".", "c", "o", "m">>},
    {<<"g", "o", "o", "g", "l", "e", ".", "c", "o", "m">>,
     <<"y", "o", "u", "t", "u", "b", "e", ".", "c", "o", "m">>,
     <<"g", "m", "a", "i", "l", ".", "c", "o", "m">>,
     <<"d", "r", "i", "v", "e", ".", "g", "o", "o", "g", "l", "e", ".", "c", "o", "m">>},
    {<<"m", "i", "c", "r", "o", "s", "o", "f", "t", ".", "c", "o", "m">>,
     <<"o", "u", "t", "l", "o", "o", "k", ".", "c", "o", "m">>,
     <<"o", "f", "f", "i", "c", "e", ".", "c", "o", "m">>,
     <<"g", "i", "t", "h", "u", "b", ".", "c", "o", "m">>},
    {<<"f", "a", "c", "e", "b", "o", "o", "k", ".", "c", "o", "m">>,
     <<"i", "n", "s", "t", "a", "g", "r", "a", "m", ".", "c", "o", "m">>,
     <<"w", "h", "a", "t", "s", "a", "p", "p", ".", "c", "o", "m">>,
     <<"m", "e", "t", "a", ".", "c", "o", "m">>},
    {<<"a", "m", "a", "z", "o", "n", ".", "c", "o", "m">>,
     <<"a", "w", "s", ".", "a", "m", "a", "z", "o", "n", ".", "c", "o", "m">>,
     <<"p", "r", "i", "m", "e", ".", "a", "m", "a", "z", "o", "n", ".", "c", "o", "m">>},
    {<<"l", "i", "n", "k", "e", "d", "i", "n", ".", "c", "o", "m">>,
     <<"i", "n", "d", "e", "e", "d", ".", "c", "o", "m">>,
     <<"g", "l", "a", "s", "s", "d", "o", "o", "r", ".", "c", "o", "m">>},
    {
     <<"s", "t", "a", "c", "k", "o", "v", "e", "r", "f", "l", "o", "w", ".", "c", "o", "m">>,
     <<"s", "t", "a", "c", "k", "e", "x", "c", "h", "a", "n", "g", "e", ".", "c", "o", "m">>,
     <<"s", "e", "r", "v", "e", "r", "f", "a", "u", "l", "t", ".", "c", "o", "m">>}>>

(* A URL with what `new URL(href)` makes of it: hostname and pathname, or a
   TypeError (parses = FALSE) *)
ParsedUrl(href, parses, hostname, pathname) ==
  [href |-> href, parses |-> parses, hostname |-> hostname,
   pathname |-> pathname]

HostMIo == <<"m", ".", "i", "o">>

HostXMIo == <<"x", ".", "m", ".", "i", "o">>

HostAOrg == <<"a", ".", "o", "r", "g">>

HostBAOrg == <<"b", ".", "a", ".", "o", "r", "g">>

HostClaudeAi == <<"c", "l", "a", "u", "d", "e", ".", "a", "i">>

WordJob == <<"j", "o", "b">>

WordBot == <<"b", "o", "t">>

(* The items {url, title} handed to calculateSimilarity: one page under two
   titles, a subdomain of it with a path, a URL without a scheme, two
   institutional domains of which one contains the other, and a company
   domain *)
AnalyzerItems ==
  {[url |-> ParsedUrl(Https \o HostMIo \o <<"/">>, TRUE, HostMIo, <<"/">>),
    title |-> WordJob],
   [url |-> ParsedUrl(Https \o HostMIo \o <<"/">>, TRUE, HostMIo, <<"/">>),
    title |-> WordBot],
   [url |-> ParsedUrl(Https \o HostXMIo \o <<"/">> \o WordJob, TRUE, HostXMIo,
                      <<"/">> \o WordJob),
    title |-> <<>>],
   [url |-> ParsedUrl(HostMIo, FALSE, <<>>, <<>>), title |-> WordJob],
   [url |-> ParsedUrl(Https \o HostAOrg \o <<"/">>, TRUE, HostAOrg, <<"/">>),
    title |-> <<>>],
   [url |-> ParsedUrl(Https \o HostBAOrg \o <<"/">>, TRUE, HostBAOrg, <<"/">>),
    title |-> <<>>],
   [url |-> ParsedUrl(Https \o HostClaudeAi \o <<"/">>, TRUE, HostClaudeAi,
                      <<"/">>),
    title |-> <<>>]}

(* s.replace(/[chars]/g, ' ') *)
ReplaceCharsBySpace(s, chars) ==
  [k \in 1..Len(s) |-> IF s[k] \in chars THEN " " ELSE s[k]]

(* The maximal runs of word characters of s, in order: what
   replace(/[^\w\s]/g, ' ').split(/\s+/).filter(token => token.length > 0)
   leaves *)
RECURSIVE WordRunSeq(_, _, _)
WordRunSeq(s, k, cur) ==
  IF k > Len(s) THEN (IF cur = <<>> THEN <<>> ELSE <<cur>>)
  ELSE IF IsWordChar(s[k]) THEN WordRunSeq(s, k + 1, Append(cur, s[k]))
  ELSE (IF cur = <<>> THEN <<>> ELSE <<cur>>) \o WordRunSeq(s, k + 1, <<>>)

tokenize(text) == WordRunSeq(ToLowerCase(text), 1, <<>>)

(* path.split('/') *)
RECURSIVE SplitOnSlash(_, _, _)
SplitOnSlash(s, k, cur) ==
  IF k > Len(s) THEN <<cur>>
  ELSE IF s[k] = "/" THEN <<cur>> \o SplitOnSlash(s, k + 1, <<>>)
  ELSE SplitOnSlash(s, k + 1, Append(cur, s[k]))

IsDigits(seg) ==
  /\ seg # <<>>
  /\ \A k \in 1..Len(seg) :
       seg[k] \in {"0", "1", "2", "3", "4", "5", "6", "7", "8", "9"}

RECURSIVE FlatMapTokens(_)
FlatMapTokens(segs) ==
  IF segs = <<>> THEN <<>>
  ELSE LET seg == Head(segs)
       IN (IF Len(seg) > 2 /\ ~IsDigits(seg)
           THEN tokenize(ReplaceCharsBySpace(seg, {"-", "_"}))
           ELSE <<>>) \o FlatMapTokens(Tail(segs))

RECURSIVE CleanTokens(_)
CleanTokens(tokens) ==
  IF tokens = <<>> THEN <<>>
  ELSE LET token == Head(tokens)
       IN (IF Len(token) > 2 /\ token \notin stopWords
           THEN <<ToLowerCase(token)>> ELSE <<>>) \o CleanTokens(Tail(tokens))

(* wordToGroups.get(token) *)
GroupsOf(token) ==
  {g \in DOMAIN semanticGroups : token \in semanticGroups[g]}

(* getSemanticVector before its normalisation, in tenths: 0.3 for every
   occurrence of a token under the token's key, 2.0 for every occurrence
   under the key of each group of the token.  The normalisation divides
   every entry by the same positive magnitude, which the cosine of
   semanticVectorSimilarity cancels. *)
getSemanticVector(tokens) ==
  LET occurrences(t) == Cardinality({k \in 1..Len(tokens) : tokens[k] = t})
      tokenSet == {tokens[k] : k \in 1..Len(tokens)}
      groupKeys == UNION {GroupsOf(t) : t \in tokenSet}
      keys == {<<"token", t>> : t \in tokenSet}
                \cup {<<"GROUP", g>> : g \in groupKeys}
      inGroup(g) == {k \in 1..Len(tokens) : g \in GroupsOf(tokens[k])}
  IN [key \in keys |->
        IF key[1] = "token" THEN 3 * occurrences(key[2])
        ELSE 20 * Cardinality(inGroup(key[2]))]

EmptyVector == [key \in {} |-> 0]

extractFeatures(item) ==
  IF item.url.parses
  THEN LET domain == ReplaceFirst(item.url.hostname,
                                  <<"w", "w", "w", ".">>, <<>>)
           titleTokens == tokenize(item.title)
           pathTokens == FlatMapTokens(SplitOnSlash(item.url.pathname, 1, <<>>))
           domainTokens == tokenize(ReplaceCharsBySpace(domain, {"."}))
           cleanTokens == CleanTokens(titleTokens \o pathTokens \o domainTokens)
       IN [tokens |-> cleanTokens, domain |-> domain,
           semanticVector |-> getSemanticVector(cleanTokens)]
  ELSE [tokens |-> IF item.title # <<>> THEN <<item.title>> ELSE <<>>,
        domain |-> item.url.href,
        semanticVector |-> EmptyVector]

RECURSIVE SumSet(_, _)
SumSet(f, keys) ==
  IF keys = {} THEN 0
  ELSE LET key == CHOOSE key \in keys : TRUE
       IN f[key] + SumSet(f, keys \ {key})

semanticVectorSimilarity(vectorA, vectorB) ==
  LET allKeys == DOMAIN vectorA \cup DOMAIN vectorB
      valueA(key) == IF key \in DOMAIN vectorA THEN vectorA[key] ELSE 0
      valueB(key) == IF key \in DOMAIN vectorB THEN vectorB[key] ELSE 0
      dotProduct == SumSet([key \in allKeys |-> valueA(key) * valueB(key)], allKeys)
      normA == SumSet([key \in allKeys |-> valueA(key) * valueA(key)], allKeys)
      normB == SumSet([key \in allKeys |-> valueB(key) * valueB(key)], allKeys)
  IN IF allKeys = {} THEN Rat(0, 1)
     ELSE IF normA * normB = 0 \/ dotProduct = 0 THEN Rat(0, 1)
     ELSE Rat(dotProduct, Sqrt(normA * normB))

jaccardSimilarity(tokensA, tokensB) ==
  LET setA == {tokensA[k] : k \in 1..Len(tokensA)}
      setB == {tokensB[k] : k \in 1..Len(tokensB)}
      union == setA \cup setB
  IN IF Cardinality(union) > 0
     THEN Rat(Cardinality(setA \cap setB), Cardinality(union))
     ELSE Rat(0, 1)

InstitutionalTlds == {<<"e", "d", "u">>, <<"g", "o", "v">>, <<"o", "r", "g">>}

(* domainSimilarity with the subdomain test ahead of the TLD test *)
domainSimilarityContainmentFirst(domainA, domainB) ==
  IF domainA = domainB THEN Rat(1, 1)
  ELSE IF Includes(domainA, domainB) \/ Includes(domainB, domainA)
    THEN Rat(6, 10)
  ELSE IF LastDotPart(domainA) = LastDotPart(domainB)
          /\ LastDotPart(domainA) \in InstitutionalTlds
    THEN Rat(3, 10)
  ELSE Rat(0, 1)

domainSimilarity(domainA, domainB) ==
  IF domainA = domainB THEN Rat(1, 1)
  ELSE IF LastDotPart(domainA) = LastDotPart(domainB)
          /\ LastDotPart(domainA) \in InstitutionalTlds
    THEN Rat(3, 10)
  ELSE IF Includes(domainA, domainB) \/ Includes(domainB, domainA)
    THEN Rat(6, 10)
  ELSE Rat(0, 1)

companySimilarity(domainA, domainB) ==
  LET has(companyDomains, d) ==
        \E domain \in companyDomains : Includes(d, domain) \/ Includes(domain, d)
  IN IF \E c \in 1..Len(companies) :
          has(companies[c], domainA) /\ has(companies[c], domainB)
     THEN Rat(1, 1) ELSE Rat(0, 1)

(* Lines 170-190: the features of the two items and the four signals *)
Similarities(itemA, itemB) ==
  LET featuresA == extractFeatures(itemA)
      featuresB == extractFeatures(itemB)
  IN [domainA |-> featuresA.domain, domainB |-> featuresB.domain,
      tokensA |-> featuresA.tokens, tokensB |-> featuresB.tokens,
      semantic |-> semanticVectorSimilarity(featuresA.semanticVector,
                                            featuresB.semanticVector),
      jaccard |-> jaccardSimilarity(featuresA.tokens, featuresB.tokens),
      domain |-> domainSimilarity(featuresA.domain, featuresB.domain),
      company |-> companySimilarity(featuresA.domain, featuresB.domain)]

(* Lines 192-216: the adaptive weighted combination, before the cap *)
WeightedCombination(s) ==
  IF RatGeq(s.domain, Rat(6, 10)) \/ RatGeq(s.company, Rat(9, 10))
  THEN LET weighted ==
             RatAdd(RatAdd(RatScale(s.semantic, 2, 10), RatScale(s.jaccard, 3, 10)),
                    RatAdd(RatScale(s.domain, 2, 10), RatScale(s.company, 3, 10)))
           domainBoost == IF RatGeq(s.domain, Rat(6, 10)) THEN Rat(4, 10)
                          ELSE Rat(0, 1)
           companyBoost == IF RatGeq(s.company, Rat(9, 10)) THEN Rat(3, 10)
                           ELSE Rat(0, 1)
       IN RatAdd(weighted, RatAdd(domainBoost, companyBoost))
  ELSE RatAdd(RatAdd(RatScale(s.semantic, 4, 10), RatScale(s.jaccard, 3, 10)),
              RatAdd(RatScale(s.domain, 2, 10), RatScale(s.company, 1, 10)))

(* Line 219: Math.min(finalSimilarity, 1.0) *)
CapAtOne(sum) == RatNorm(RatMin(sum, Rat(1, 1)))

(* What one computation of calculateSimilarity (lines 170-219) produces for
   every pair of items: the signals, the sum and the capped score *)
Computed ==
  [pair \in AnalyzerItems \X AnalyzerItems |->
     LET s == Similarities(pair[1], pair[2])
         sum == RatNorm(WeightedCombination(s))
     IN [similarities |-> s, sum |-> sum, finalSimilarity |-> CapAtOne(sum)]]

(* `${itemA.url}|||${itemB.url}` *)
cacheKey(itemA, itemB) ==
  itemA.url.href \o <<"|", "|", "|">> \o itemB.url.href

NoComputation == [computed |-> FALSE]

(* calculateSimilarity(itemA, itemB) on the analyzer instance: the cached
   score of the key if there is one, else a computation that is cached *)
CalculateSimilarity ==
  /\ pc = "analyzer"
  /\ Cardinality(DOMAIN cache) < MaxCached
  /\ \E itemA \in AnalyzerItems, itemB \in AnalyzerItems :
       LET key == cacheKey(itemA, itemB)
           c == Computed[<<itemA, itemB>>]
       IN IF key \in DOMAIN cache
          THEN UNCHANGED <<cache, computation>>
          ELSE /\ cache' = [k \in DOMAIN cache \cup {key} |->
                              IF k = key THEN c.finalSimilarity ELSE cache[k]]
               /\ computation' = [computed |-> TRUE, itemA |-> itemA,
                                  itemB |-> itemB,
                                  similarities |-> c.similarities,
                                  sum |-> c.sum,
                                  finalSimilarity |-> c.finalSimilarity]
  /\ UNCHANGED <<pc, historyItems, sortedHistory, domainData, connections,
                 visitEvents, i, failedPairs, transitionLog, loading,
                 transitions, chains, chainRuns, focusSessions, result>>
  /\ UNCHANGED workerVars
  /\ UNCHANGED reportVars
  /\ UNCHANGED cacheVars
  /\ UNCHANGED protocolVars

----------------------------------------------------------------------------
(* The embedding worker: classifyTransition and the threshold calibration  *)
(* Similarities and thresholds of the worker are in thousandths.           *)

SEMANTIC_CONFIG ==
  [lruSize |-> 200,
   thresholds |-> [related |-> 500, topicShift |-> 250],
   calibration |-> [window |-> 500, adjustEvery |-> 100]]

(* Math.floor((1 - cfg.targetTopFraction) * sorted.length) for the 500
   samples the window keeps: (1 - 0.33) is 0.6699999999999999 in doubles and
   the product is 334.99999999999994 *)
CalibrationIndex == 334

NoThresholds == [saved |-> FALSE, related |-> 0, topicShift |-> 0]

(* What an earlier run of the worker can have left in the store *)
PersistedThresholds ==
  {NoThresholds} \cup
  {[saved |-> TRUE, related |-> r, topicShift |-> 250] : r \in {260, 800, 950}}

(* Object.assign(SEMANTIC_CONFIG.thresholds, persisted) of handleInit *)
handleInit(stored) ==
  IF stored.saved
    THEN [related |-> stored.related, topicShift |-> stored.topicShift]
    ELSE SEMANTIC_CONFIG.thresholds

(* The samples of a worker that has classified no pair yet, that is one
   sample short of its first adjustEvery samples (all near 0.9), or that is
   one sample short of its calibration window: all 0, all 1.0, or 334 times
   0 and then 0.503 *)
InitialSamples ==
  {<<>>,
   [k \in 1..(SEMANTIC_CONFIG.calibration.adjustEvery - 1) |-> 900]} \cup
  {[k \in 1..(SEMANTIC_CONFIG.calibration.window - 1) |->
      IF k <= split THEN 0 ELSE high] :
        split \in {0, CalibrationIndex}, high \in {503, 1000}} \cup
  {[k \in 1..(SEMANTIC_CONFIG.calibration.window - 1) |-> 0]}

Min2(a, b) == IF a <= b THEN a ELSE b

Max2(a, b) == IF a >= b THEN a ELSE b

Abs(a) == IF a < 0 THEN -a ELSE a

(* The vectors embedOne hands back, in fifths: the output of the E5
   pipeline is not constrained by the worker *)
Embeddings == {<<5, 0>>, <<4, 3>>, <<-5, 0>>}

RECURSIVE SumTo(_, _)
SumTo(f, n) == IF n = 0 THEN 0 ELSE f[n] + SumTo(f, n - 1)

(* cosine(a, b), in thousandths *)
cosine(a, b) ==
  IF Len(a) # Len(b) THEN 0
  ELSE LET dot == SumTo([k \in 1..Len(a) |-> a[k] * b[k]], Len(a))
           na == SumTo([k \in 1..Len(a) |-> a[k] * a[k]], Len(a))
           nb == SumTo([k \in 1..Len(a) |-> b[k] * b[k]], Len(a))
           product == Sqrt(na) * Sqrt(nb)
           denom == IF product # 0 THEN product ELSE 1
       IN Min2(1000, Max2(-1000, (dot * 1000) \div denom))

(* similarityForPair: it throws, or it returns the cosine of the two
   embeddings *)
WorkerOutcomes ==
  {[throws |-> TRUE, sim |-> 0]} \cup
  {[throws |-> FALSE, sim |-> cosine(ea, eb)] :
     ea \in Embeddings, eb \in Embeddings}

WorkerTimeDiffs == {5 * 60 * 1000, 5 * 60 * 1000 + 1,
                    30 * 60 * 1000, 30 * 60 * 1000 + 1}

NoMessage == [id |-> 0, type |-> "none", timeDiffMs |-> 0]

NoReply == [id |-> 0, error |-> FALSE, type |-> "none", sim |-> 0]

(* Element idx (from 0) of [...samples].sort((a,b)=>a-b) *)
SortedAt(samples, idx) ==
  CHOOSE v \in {samples[k] : k \in 1..Len(samples)} :
    /\ Cardinality({k \in 1..Len(samples) : samples[k] < v}) <= idx
    /\ idx < Cardinality({k \in 1..Len(samples) : samples[k] <= v})

(* A calibration that does not wait for the window to fill *)
calibrateBeforeWindowFull(samples, th, stored) ==
  LET atIdx == SortedAt(samples, (Len(samples) * 67) \div 100)
      related == Max2(th.topicShift + 10, Min2(950, atIdx))
  IN [samples |-> samples, thresholds |-> [th EXCEPT !.related = related],
      stored |-> [saved |-> TRUE, related |-> related,
                  topicShift |-> th.topicShift]]

(* A calibration that takes the sample at the index as it is *)
calibrateWithoutClamp(samples, th, stored) ==
  LET cfg == SEMANTIC_CONFIG.calibration
  IN IF Len(samples) < cfg.window
     THEN [samples |-> samples, thresholds |-> th, stored |-> stored]
     ELSE LET sliced == SubSeq(samples, Len(samples) - cfg.window + 1,
                               Len(samples))
          IN [samples |-> sliced,
              thresholds |-> [th EXCEPT !.related =
                                SortedAt(sliced, CalibrationIndex)],
              stored |-> stored]

(* calibrateIfNeeded: the samples, the thresholds and the store it leaves *)
calibrateIfNeeded(samples, th, stored) ==
  LET cfg == SEMANTIC_CONFIG.calibration
  IN IF Len(samples) < cfg.window
     THEN [samples |-> samples, thresholds |-> th, stored |-> stored]
     ELSE LET sliced == SubSeq(samples, Len(samples) - cfg.window + 1,
                               Len(samples))
              atIdx == SortedAt(sliced, CalibrationIndex)
              newRelated == IF atIdx # 0 THEN atIdx ELSE th.related
              before == th.related
              related == Max2(th.topicShift + 10, Min2(950, newRelated))
              after == [th EXCEPT !.related = related]
          IN [samples |-> sliced, thresholds |-> after,
              stored |-> IF Abs(before - related) > 5
                         THEN [saved |-> TRUE, related |-> after.related,
                               topicShift |-> after.topicShift]
                         ELSE stored]

noteSimilarity(samples, th, stored, sim) ==
  LET pushed == Append(samples, sim)
  IN IF Len(pushed) % SEMANTIC_CONFIG.calibration.adjustEvery = 0
     THEN calibrateIfNeeded(pushed, th, stored)
     ELSE [samples |-> pushed, thresholds |-> th, stored |-> stored]

(* The three returns of classifyTransition *)
classifyTransition(sim, timeDiff, th) ==
  IF timeDiff <= 5 * 60 * 1000 /\ sim >= th.related THEN "related"
  ELSE IF sim >= th.topicShift \/ timeDiff <= 30 * 60 * 1000 THEN "topic_shift"
  ELSE "context_switch"

----------------------------------------------------------------------------
(* The embedding cache: an in-memory LRU in front of an IndexedDB store    *)
(* The requests of the store are taken to succeed.                          *)

(* new LRU(self.SEMANTIC_CONFIG?.lruSize || 200) *)
LruLimit == SEMANTIC_CONFIG.lruSize

(* A Float32Array element is the two 16-bit halves of its IEEE-754 pattern:
   1.0 is 3F80 0000, 0.1 is 3DCC CCCD, -1.0 is BF80 0000 *)
Float32(hi, lo) == [hi |-> hi, lo |-> lo]

Vectors ==
  {<<Float32(16256, 0)>>, <<Float32(15820, 52429), Float32(49024, 0)>>}

(* Keys are hashes: 1..LruLimit are the keys of texts embedded earlier, the
   probe keys are the keys the calls of a run use *)
ProbeKeys == {LruLimit + 1, LruLimit + 2}

(* view.setFloat32(i*4, arr[i], true): the four bytes, least significant
   first *)
setFloat32(x) == <<x.lo % 256, x.lo \div 256, x.hi % 256, x.hi \div 256>>

(* DataView.getFloat32(0) without the littleEndian flag *)
getFloat32BigEndian(b) ==
  Float32(b[1] * 256 + b[2], b[3] * 256 + b[4])

(* new DataView(...).getFloat32(0, true) *)
getFloat32(b) ==
  Float32(b[3] + 256 * b[4], b[1] + 256 * b[2])

(* A base64 text is the sequence of its 6-bit digits; 64 is the padding
   character *)
RECURSIVE btoa(_)
btoa(bytes) ==
  IF bytes = <<>> THEN <<>>
  ELSE IF Len(bytes) = 1
  THEN <<bytes[1] \div 4, (bytes[1] % 4) * 16, 64, 64>>
  ELSE IF Len(bytes) = 2
  THEN <<bytes[1] \div 4, (bytes[1] % 4) * 16 + bytes[2] \div 16,
         (bytes[2] % 16) * 4, 64>>
  ELSE <<bytes[1] \div 4, (bytes[1] % 4) * 16 + bytes[2] \div 16,
         (bytes[2] % 16) * 4 + bytes[3] \div 64, bytes[3] % 64>>
       \o btoa(SubSeq(bytes, 4, Len(bytes)))

RECURSIVE atob(_)
atob(text) ==
  IF text = <<>> THEN <<>>
  ELSE LET first == text[1] * 4 + text[2] \div 16
           second == (text[2] % 16) * 16 + text[3] \div 4
           third == (text[3] % 4) * 64 + text[4]
       IN IF text[3] = 64 THEN <<first>>
          ELSE IF text[4] = 64 THEN <<first, second>>
          ELSE <<first, second, third>> \o atob(SubSeq(text, 5, Len(text)))

RECURSIVE Flatten(_)
Flatten(seqs) ==
  IF seqs = <<>> THEN <<>> ELSE Head(seqs) \o Flatten(Tail(seqs))

(* float32ToBase64 *)
float32ToBase64(arr) ==
  btoa(Flatten([k \in 1..Len(arr) |-> setFloat32(arr[k])]))

(* The decoding loop of getEmbedding: buff.length/4 elements *)
DecodeVector(vector) ==
  LET buff == atob(vector)
  IN [k \in 1..(Len(buff) \div 4) |->
        getFloat32(SubSeq(buff, 4 * k - 3, 4 * k))]

LruKeys(map) == {map[k].key : k \in 1..Len(map)}

LruEntry(map, key) == map[CHOOSE k \in 1..Len(map) : map[k].key = key]

(* Map.prototype.delete *)
MapDelete(map, key) == SelectSeq(map, LAMBDA e : e.key # key)

(* LRU.get that reads the entry where it is *)
lruGetInPlace(map, key) ==
  IF key \notin LruKeys(map) THEN [found |-> FALSE, map |-> map]
  ELSE [found |-> TRUE, entry |-> LruEntry(map, key), map |-> map]

(* LRU.get: the entry found moves to the end of the Map *)
lruGet(map, key) ==
  IF key \notin LruKeys(map) THEN [found |-> FALSE, map |-> map]
  ELSE LET v == LruEntry(map, key)
       IN [found |-> TRUE, entry |-> v,
           map |-> Append(MapDelete(map, key), v)]

(* LRU.set: the key moves to the end, and the first key goes when the size
   exceeds the limit *)
lruSet(map, key, value, meta) ==
  LET set == Append(MapDelete(map, key),
                    [key |-> key, value |-> value, meta |-> meta])
  IN IF Len(set) > LruLimit THEN Tail(set) ELSE set

(* store.put({ key, vector, meta }) *)
StorePut(records, key, vector, meta) ==
  [k \in DOMAIN records \cup {key} |->
     IF k = key THEN [vector |-> vector, meta |-> meta] ELSE records[k]]

NoCall == [op |-> "none", key |-> 0, hit |-> "none"]

(* What the cache holds when a run of the model starts: nothing, or the
   first probe key stored with a vector and then every filler key but the
   first one, which fills the LRU and leaves the probe key its oldest entry *)
EarlierEntry(key) ==
  [key |-> key,
   value |-> CHOOSE v \in Vectors :
               Len(v) = IF key \in ProbeKeys THEN 2 ELSE 1,
   meta |-> [t |-> 0]]

EarlierKeys == <<LruLimit + 1>> \o [k \in 1..(LruLimit - 1) |-> k + 1]

EarlierLru == [k \in 1..LruLimit |-> EarlierEntry(EarlierKeys[k])]

EarlierStore ==
  [key \in LruKeys(EarlierLru) |->
     [vector |-> float32ToBase64(EarlierEntry(key).value),
      meta |-> EarlierEntry(key).meta]]

EarlierHistory ==
  [written |-> [key \in LruKeys(EarlierLru) |-> EarlierEntry(key).value],
   lastUse |-> [key \in LruKeys(EarlierLru) |->
                  (CHOOSE k \in 1..LruLimit : EarlierKeys[k] = key) - LruLimit - 1],
   clock |-> 0]

NoHistory == [written |-> <<>>, lastUse |-> <<>>, clock |-> 0]

(* f with key mapped to value *)
Mapped(f, key, value) ==
  [k \in DOMAIN f \cup {key} |-> IF k = key THEN value ELSE f[k]]

(* getEmbedding(key) *)
GetEmbedding ==
  /\ pc = "embeddingCache"
  /\ cacheHistory.clock < MaxCacheCalls
  /\ \E key \in ProbeKeys \cup {EarlierKeys[2]} :
       LET cached == lruGet(lru, key)
           now == cacheHistory.clock + 1
       IN IF cached.found
          THEN /\ lru' = cached.map
               /\ cacheCall' = [op |-> "get", key |-> key, hit |-> "memory",
                                value |-> cached.entry.value,
                                meta |-> cached.entry.meta]
               /\ cacheHistory' = [cacheHistory EXCEPT
                                     !.clock = now,
                                     !.lastUse = Mapped(@, key, now)]
          ELSE IF key \in DOMAIN store
          THEN LET arr == DecodeVector(store[key].vector)
               IN /\ lru' = lruSet(lru, key, arr, store[key].meta)
                  /\ cacheCall' = [op |-> "get", key |-> key, hit |-> "disk",
                                   value |-> arr, meta |-> store[key].meta]
                  /\ cacheHistory' = [cacheHistory EXCEPT
                                        !.clock = now,
                                        !.lastUse = Mapped(@, key, now)]
          ELSE /\ lru' = lru
               /\ cacheCall' = [op |-> "get", key |-> key, hit |-> "null"]
               /\ cacheHistory' = [cacheHistory EXCEPT !.clock = now]
  /\ UNCHANGED store
  /\ UNCHANGED <<pc, historyItems, sortedHistory, domainData, connections,
                 visitEvents, i, failedPairs, transitionLog, loading,
                 transitions, chains, chainRuns, focusSessions, result>>
  /\ UNCHANGED workerVars
  /\ UNCHANGED analyzerVars
  /\ UNCHANGED reportVars
  /\ UNCHANGED protocolVars

(* setEmbedding(key, vector, meta) *)
SetEmbedding ==
  /\ pc = "embeddingCache"
  /\ cacheHistory.clock < MaxCacheCalls
  /\ \E key \in ProbeKeys, vector \in Vectors :
       LET now == cacheHistory.clock + 1
           meta == [t |-> now]
       IN /\ lru' = lruSet(lru, key, vector, meta)
          /\ store' = StorePut(store, key, float32ToBase64(vector), meta)
          /\ cacheCall' = [op |-> "set", key |-> key, hit |-> "none",
                           value |-> vector, meta |-> meta]
          /\ cacheHistory' = [written |-> Mapped(cacheHistory.written, key, vector),
                              lastUse |-> Mapped(cacheHistory.lastUse, key, now),
                              clock |-> now]
  /\ UNCHANGED <<pc, historyItems, sortedHistory, domainData, connections,
                 visitEvents, i, failedPairs, transitionLog, loading,
                 transitions, chains, chainRuns, focusSessions, result>>
  /\ UNCHANGED workerVars
  /\ UNCHANGED analyzerVars
  /\ UNCHANGED reportVars
  /\ UNCHANGED protocolVars

----------------------------------------------------------------------------
(* The cognitive analyses of the visualizer and the report they leave      *)

Hours == 0..23

(* new Date(time).getHours(), for a clock on UTC *)
getHours(time) == (time \div (60 * 60 * 1000)) % 24

(* calculateComplexity, in hundredths *)
calculateComplexity(domain, title) ==
  LET base == IF domain = <<"g", "i", "t", "h", "u", "b", ".", "c", "o", "m">> THEN 70
              ELSE IF domain = <<"s", "t", "a", "c", "k", "o", "v", "e", "r", "f", "l", "o", "w", ".", "c", "o", "m">> THEN 80
              ELSE IF domain = <<"a", "r", "x", "i", "v", ".", "o", "r", "g">> THEN 90
              ELSE IF domain = <<"w", "i", "k", "i", "p", "e", "d", "i", "a", ".", "o", "r", "g">> THEN 60
              ELSE IF domain = <<"r", "e", "d", "d", "i", "t", ".", "c", "o", "m">> THEN 40
              ELSE IF domain = <<"y", "o", "u", "t", "u", "b", "e", ".", "c", "o", "m">> THEN 30
              ELSE 50
      lower == ToLowerCase(title)
      plus == {<<"d", "o", "c", "u", "m", "e", "n", "t", "a", "t", "i", "o", "n">>, <<"a", "p", "i">>, <<"t", "u", "t", "o", "r", "i", "a", "l">>, <<"r", "e", "s", "e", "a", "r", "c", "h">>}
      minus == {<<"m", "e", "m", "e">>, <<"f", "u", "n", "n", "y">>, <<"s", "o", "c", "i", "a", "l">>}
      score == base + 10 * Cardinality({k \in plus : Includes(lower, k)})
                    - 10 * Cardinality({k \in minus : Includes(lower, k)})
  IN Min2(100, Max2(0, score))

(* new Array(24).fill().map(() => ({ total: 0, count: 0 })) *)
NoComplexity == [h \in Hours |-> [total |-> 0, count |-> 0]]

(* The accumulation at the end of analyzeFocusSessions, one event at a time *)
RECURSIVE AddEvents(_, _)
AddEvents(byHour, events) ==
  IF events = <<>> THEN byHour
  ELSE LET ev == Head(events)
           h == getHours(ev.time)
           c == calculateComplexity(ev.domain, ev.title)
       IN AddEvents([byHour EXCEPT ![h] = [total |-> @.total + c,
                                            count |-> @.count + 1]],
                    Tail(events))

(* sessions.forEach(s => s.events.forEach(...)) on this.complexityByHour *)
RECURSIVE AccumulateComplexity(_, _)
AccumulateComplexity(byHour, sessions) ==
  IF sessions = <<>> THEN byHour
  ELSE AccumulateComplexity(AddEvents(byHour, Head(sessions).events),
                            Tail(sessions))

(* complexityByHour.map(o => o.count ? o.total/o.count : 0), in hundredths *)
hourlyComplexity(byHour) ==
  [h \in Hours |-> IF byHour[h].count # 0
                   THEN RatNorm(Rat(byHour[h].total, byHour[h].count))
                   ELSE Rat(0, 1)]

(* The session lengths of analyzeTemporalPatterns: a gap of more than
   SESSION_GAP closes the session *)
RECURSIVE GapSessions(_, _, _, _, _)
GapSessions(events, k, sessionStart, lastTime, out) ==
  IF k > Len(events) THEN Append(out, lastTime - sessionStart)
  ELSE LET v == events[k]
       IN IF v.time - lastTime > 5 * 60 * 1000
          THEN GapSessions(events, k + 1, v.time, v.time,
                           Append(out, lastTime - sessionStart))
          ELSE GapSessions(events, k + 1, sessionStart, v.time, out)

RECURSIVE SumSeq(_)
SumSeq(s) == IF s = <<>> THEN 0 ELSE Head(s) + SumSeq(Tail(s))

(* f[0] + ... + f[h] *)
RECURSIVE SumHours(_, _)
SumHours(f, h) == IF h < 0 THEN 0 ELSE f[h] + SumHours(f, h - 1)

(* The sum of dev[h] * dev[h + k] over the hours h of the day that have an
   hour h + k, from hour h down *)
RECURSIVE PairSum(_, _, _)
PairSum(dev, k, h) ==
  IF h < 0 THEN 0 ELSE dev[h] * dev[h + k] + PairSum(dev, k, h - 1)

(* The numerator of autocorr(minuteSeries, lag) up to the positive factor
   all lags share. The minute series is constant within an hour: of the 60
   minutes of hour h, 60 - r meet a minute of hour h + q and r meet a minute
   of hour h + q + 1, where lag = 60 q + r. sums[k] is the pair sum at k *)
AutocorrNumerator(sums, lag) ==
  LET q == lag \div 60
      r == lag % 60
  IN (60 - r) * sums[q] + r * sums[q + 1]

(* The loop over the lags 90, 95, ..., 120: the first lag with the greatest
   autocorrelation; bestR starts at -Infinity *)
RECURSIVE BestLag(_, _, _, _)
BestLag(sums, lag, bestLag, bestR) ==
  IF lag > 120 THEN bestLag
  ELSE LET r == AutocorrNumerator(sums, lag)
       IN IF bestLag = 0 \/ r > bestR
          THEN BestLag(sums, lag + 5, lag, r)
          ELSE BestLag(sums, lag + 5, bestLag, bestR)

(* dev[h] is 1440 times the deviation of the per-minute value of hour h from
   the mean of the series; with a constant series every autocorrelation is 0 *)
rhythmPeriod(hourlyActivity) ==
  IF \A h \in Hours : hourlyActivity[h] = hourlyActivity[0] THEN 90
  ELSE LET total == SumHours(hourlyActivity, 23)
           dev == [h \in Hours |-> 24 * hourlyActivity[h] - total]
           sums == <<PairSum(dev, 1, 22), PairSum(dev, 2, 21),
                     PairSum(dev, 3, 20)>>
       IN BestLag(sums, 90, 0, 0)

(* analyzeTemporalPatterns; peakHours is the set of the hours of the array,
   avgSessionMinutes is in hundredths *)
(* The local `sessions` of analyzeTemporalPatterns: one length per session *)
SessionLengths(visitsSorted) ==
  IF visitsSorted = <<>> THEN <<>>
  ELSE GapSessions(visitsSorted, 2, visitsSorted[1].time,
                   visitsSorted[1].time, <<>>)

analyzeTemporalPatterns(events) ==
  LET visitsSorted == SortByTime(events)
      hourlyActivity ==
        [h \in Hours |->
           Cardinality({k \in 1..Len(events) : getHours(events[k].time) = h})]
      sessions == SessionLengths(visitsSorted)
      counts == {hourlyActivity[h] : h \in Hours}
      threshold ==
        CHOOSE v \in counts :
          /\ Cardinality({h \in Hours : hourlyActivity[h] < v}) <= (3 * 24) \div 4
          /\ Cardinality({h \in Hours : hourlyActivity[h] <= v}) > (3 * 24) \div 4
  IN [hourlyActivity |-> hourlyActivity,
      peakHours |-> {h \in Hours : /\ hourlyActivity[h] >= threshold
                                   /\ hourlyActivity[h] > 0},
      rhythmPeriod |-> rhythmPeriod(hourlyActivity),
      avgSessionMinutes |->
        IF sessions = <<>> THEN 0
        ELSE RoundDiv(SumSeq(sessions) * 100, Len(sessions) * 60000)]

(* entries.sort((a,b) => b[1] - a[1]): a stable sort, greatest score first *)
RECURSIVE InsertByScore(_, _)
InsertByScore(sorted, x) ==
  IF sorted = <<>> THEN <<x>>
  ELSE IF Head(sorted).score >= x.score
       THEN <<Head(sorted)>> \o InsertByScore(Tail(sorted), x)
       ELSE <<x>> \o sorted

RECURSIVE SortByScore(_)
SortByScore(s) ==
  IF s = <<>> THEN <<>>
  ELSE InsertByScore(SortByScore(SubSeq(s, 1, Len(s) - 1)), s[Len(s)])

(* The nested forEach without its `if (a===b) return` *)
NeverSameNode(a, b) == FALSE

(* a === b of calculateGraphMetrics: a and b are positions in nodes *)
SameNode(a, b) == a = b

(* calculateGraphMetrics. The entropy is kept as the distribution it is the
   entropy of: for each share visitCount/totalVisits, the number of nodes
   that have it *)
calculateGraphMetrics(nodes, links) ==
  LET domains == {nodes[k].domain : k \in 1..Len(nodes)}
      adjacency == [d \in domains |->
                      {links[k].target : k \in {j \in 1..Len(links) :
                                                  links[j].source = d}}]
      betweenness ==
        [mid \in domains |->
           Cardinality({pair \in (1..Len(nodes)) \X (1..Len(nodes)) :
                          /\ ~SameNode(pair[1], pair[2])
                          /\ mid \in adjacency[nodes[pair[1]].domain]
                          /\ nodes[pair[2]].domain \in adjacency[mid]})]
      entries == [k \in 1..Len(nodes) |->
                    [domain |-> nodes[k].domain,
                     score |-> betweenness[nodes[k].domain]]]
      ranked == SortByScore(entries)
      visits == [k \in 1..Len(nodes) |-> nodes[k].visitCount]
      totalVisits == IF SumSeq(visits) = 0 THEN 1 ELSE SumSeq(visits)
      shares == {RatNorm(Rat(visits[k], totalVisits)) : k \in 1..Len(nodes)}
  IN [betweenness |-> betweenness,
      hubs |-> SubSeq(ranked, 1, Min2(5, Len(ranked))),
      informationDiversity |->
        [p \in shares |->
           Cardinality({k \in 1..Len(nodes) :
                          RatNorm(Rat(visits[k], totalVisits)) = p})]]

(* generateInsights, from the fields of the instance it reads; the hours are
   sets, the durations and the rate are in hundredths *)
generateInsights(byHour, sessions, temporal, stats, metrics) ==
  LET peakComplexityHours ==
        {h \in Hours : /\ byHour[h].count # 0
                       /\ byHour[h].total > 70 * byHour[h].count}
      durations == [k \in 1..Len(sessions) |-> sessions[k].durationMinutes]
      totalHoursObserved ==
        LET n == Cardinality({h \in Hours : temporal.hourlyActivity[h] > 0})
        IN IF n = 0 THEN 1 ELSE n
      topicSwitches == stats.topic_shift + stats.context_switch
      switching == IF topicSwitches > 10 * totalHoursObserved
                   THEN <<"High context switching detected">> ELSE <<>>
      mismatch == IF \E h \in peakComplexityHours : h \notin temporal.peakHours
                  THEN <<"Complexity-activity mismatch">> ELSE <<>>
      short == IF sessions = <<>> \/ SumSeq(durations) < 500 * Len(sessions)
               THEN <<"Short focus periods">> ELSE <<>>
  IN [peakComplexityHours |-> peakComplexityHours,
      avgFocusDuration |-> IF sessions = <<>> THEN 0
                           ELSE RoundDiv(SumSeq(durations), Len(sessions)),
      topicSwitchRate |-> RoundDiv(topicSwitches * 100, totalHoursObserved),
      informationDiversity |-> metrics.informationDiversity,
      recommendations |-> switching \o mismatch \o short]

(* The fields of a constructed visualizer *)
NoTemporalAnalysis == [computed |-> FALSE]

NoGraphMetrics == [computed |-> FALSE]

NoInsights == [computed |-> FALSE]

NoPrevious == [ran |-> FALSE]

----------------------------------------------------------------------------
(* processHistoryData of the visualizer                                    *)

(* What calculateLocalSimilarity does for one pair: it throws (no analyzer on
   window, or the analyzer throws) or it returns a similarity *)
AnalyzerOutcomes ==
  {[throws |-> TRUE, sim |-> Rat(0, 1)]} \cup
  {[throws |-> FALSE, sim |-> v] : v \in {Rat(0, 1), Rat(40, 100), Rat(70, 100)}}

NoStats == [related |-> 0, topic_shift |-> 0, context_switch |-> 0, total |-> 0]

NoResult == [returned |-> FALSE, nodes |-> <<>>, links |-> <<>>]

EntryPoints ==
  {"processHistoryData", "processHistoryDataFallback",
   "popupProcessHistoryDataFallback", "analyze"}

(* The histories calculateGraphMetrics is followed on alone: a first visit of
   each of six domains, then MaxRevisits visits of any of them *)
GraphHosts == <<<<"a">>, <<"b">>, <<"c">>, <<"d">>, <<"e">>, <<"f">>>>

GraphWalks ==
  {[k \in 1..Len(GraphHosts) |-> k] \o revisits :
     revisits \in [1..MaxRevisits -> 1..Len(GraphHosts)]}

GraphHistory(walk) ==
  [k \in 1..Len(walk) |->
     [url |-> Url(Https \o GraphHosts[walk[k]], TRUE, GraphHosts[walk[k]]),
      title |-> <<>>, lastVisitTime |-> k]]

(* The connections the transition loop has recorded after k pairs of such a
   history; calculateGraphMetrics reads only their source and target *)
RECURSIVE GraphConnections(_, _)
GraphConnections(sorted, k) ==
  IF k = 0 THEN <<>>
  ELSE LET conns == GraphConnections(sorted, k - 1)
           currentDomain == extractDomain(sorted[k].url)
           nextDomain == extractDomain(sorted[k + 1].url)
       IN IF currentDomain = nextDomain THEN conns
          ELSE RecordConnection(conns, currentDomain, nextDomain,
                                "context_switch", Rat(0, 1),
                                sorted[k + 1].lastVisitTime)

(* The fields the constructors and handleInit leave, and the locals of a
   call that has not started *)
Constructed ==
  /\ thresholds = handleInit(persisted)
  /\ message = NoMessage
  /\ posted = NoReply
  /\ cache = <<>>
  /\ computation = NoComputation
  /\ sortedHistory = <<>>
  /\ visitEvents = <<>>
  /\ i = 0
  /\ failedPairs = {}
  /\ transitionLog = <<>>
  /\ loading = [text |-> "Processing", i |-> 0]
  /\ transitions = NoStats
  /\ chains = <<>>
  /\ chainRuns = <<>>
  /\ focusSessions = <<>>
  /\ result = NoResult
  /\ complexityByHour = NoComplexity
  /\ temporalAnalysis = NoTemporalAnalysis
  /\ graphMetrics = NoGraphMetrics
  /\ insights = NoInsights
  /\ runIndex = 1
  /\ previous = NoPrevious
  /\ cacheCall = NoCall
  /\ requests = <<>>
  /\ replies = <<>>

Init ==
  /\ \/ /\ pc \in EntryPoints
        /\ historyItems \in Histories \cup (IF pc = "processHistoryData"
                                              THEN RepeatedPairHistories
                                              ELSE {})
        /\ similaritySamples = <<>>
        /\ persisted = NoThresholds
     \/ /\ pc \in {"worker", "analyzer", "embeddingCache", "calculateGraphMetrics"}
        /\ historyItems = <<>>
        /\ similaritySamples \in IF pc = "worker" THEN InitialSamples ELSE {<<>>}
        /\ persisted \in IF pc = "worker" THEN PersistedThresholds
                         ELSE {NoThresholds}
  /\ \/ /\ domainData = <<>>
        /\ connections = <<>>
        /\ pc # "calculateGraphMetrics"
     \/ /\ pc = "calculateGraphMetrics"
        /\ \E walk \in GraphWalks :
             LET sorted == FilterAndSort(GraphHistory(walk))
             IN /\ domainData = BuildDomainData(sorted, <<>>)
                /\ connections = GraphConnections(sorted, Len(sorted) - 1)
  /\ \/ /\ lru = <<>>
        /\ store = <<>>
        /\ cacheHistory = NoHistory
     \/ /\ pc = "embeddingCache"
        /\ lru = EarlierLru
        /\ store = EarlierStore
        /\ cacheHistory = EarlierHistory
  /\ Constructed

(* Lines 357-402: filter, sort, build the nodes and the visit events *)
ProcessHistoryDataStart ==
  /\ pc = "processHistoryData"
  /\ LET sorted == FilterAndSort(historyItems)
     IN /\ sortedHistory' = sorted
        /\ domainData' = BuildDomainData(sorted, <<>>)
        /\ visitEvents' = BuildVisitEvents(sorted)
  /\ connections' = <<>>
  /\ i' = 0
  /\ loading' = [text |-> "Analyzing attention flow patterns", i |-> 0]
  /\ historyItems' = <<>>
  /\ pc' = "transitionLoop"
  /\ UNCHANGED <<failedPairs, transitionLog, transitions, chains, chainRuns,
                 focusSessions, result>>
  /\ UNCHANGED workerVars
  /\ UNCHANGED analyzerVars
  /\ UNCHANGED reportVars
  /\ UNCHANGED cacheVars
  /\ UNCHANGED protocolVars

(* The loop without its line 410 *)
NeverSelfTransition(currentDomain, nextDomain) == FALSE

(* Line 410: a pair on one domain is skipped *)
IsSelfTransition(currentDomain, nextDomain) == currentDomain = nextDomain

(* Lines 405-475: one iteration of the transition loop.  transitionLog keeps,
   for every pair that was classified, the values of the locals of that
   iteration *)
AnalyzePair ==
  /\ pc = "transitionLoop"
  /\ i < Len(sortedHistory) - 1
  /\ LET current == sortedHistory[i + 1]
         next == sortedHistory[i + 2]
         currentDomain == extractDomain(current.url)
         nextDomain == extractDomain(next.url)
         timeDiff == next.lastVisitTime - current.lastVisitTime
     IN IF IsSelfTransition(currentDomain, nextDomain)
        THEN /\ i' = i + 1
             /\ UNCHANGED <<pc, connections, failedPairs, transitionLog, loading>>
        ELSE \E outcome \in AnalyzerOutcomes :
               LET r == IF outcome.throws
                        THEN OnSimilarityFailure(current, next)
                        ELSE [similarity |-> outcome.sim,
                              transitionType |->
                                ClassifyBySimilarity(timeDiff, outcome.sim),
                              thrown |-> FALSE]
               IN IF r.thrown
                  THEN /\ pc' = "thrown"
                       /\ failedPairs' = failedPairs \cup {i}
                       /\ UNCHANGED <<connections, transitionLog, loading, i>>
                  ELSE /\ connections' =
                            RecordConnection(connections, currentDomain, nextDomain,
                                             r.transitionType, r.similarity,
                                             next.lastVisitTime)
                       /\ failedPairs' = IF outcome.throws
                                         THEN failedPairs \cup {i} ELSE failedPairs
                       /\ transitionLog' =
                            Append(transitionLog,
                                   [i |-> i, source |-> currentDomain,
                                    target |-> nextDomain, timeDiff |-> timeDiff,
                                    nextTime |-> next.lastVisitTime,
                                    sim |-> r.similarity,
                                    transitionType |-> r.transitionType,
                                    failed |-> outcome.throws])
                       /\ loading' = IF i % 50 = 0
                                     THEN [text |-> "Analyzing transitions", i |-> i]
                                     ELSE loading
                       /\ i' = i + 1
                       /\ pc' = pc
  /\ UNCHANGED <<historyItems, sortedHistory, domainData, visitEvents,
                 transitions, chains, chainRuns, focusSessions, result>>
  /\ UNCHANGED workerVars
  /\ UNCHANGED analyzerVars
  /\ UNCHANGED reportVars
  /\ UNCHANGED cacheVars
  /\ UNCHANGED protocolVars

(* Lines 477-493: the statistics, the cognitive analyses and the return *)
FinishPipeline ==
  /\ pc = "transitionLoop"
  /\ ~(i < Len(sortedHistory) - 1)
  /\ transitions' = calculateTransitionStats(connections)
  /\ LET runs == detectInformationChains(visitEvents)
     IN /\ chainRuns' = runs
        /\ chains' = [k \in 1..Len(runs) |-> summarizeChain(runs[k])]
  /\ temporalAnalysis' = analyzeTemporalPatterns(visitEvents)
  /\ focusSessions' = analyzeFocusSessions(visitEvents)
  /\ complexityByHour' = AccumulateComplexity(complexityByHour, focusSessions')
  /\ graphMetrics' = calculateGraphMetrics(domainData, connections)
  /\ insights' = generateInsights(complexityByHour', focusSessions',
                                  temporalAnalysis', transitions', graphMetrics')
  /\ result' = [returned |-> TRUE, nodes |-> domainData, links |-> connections]
  /\ pc' = "done"
  /\ UNCHANGED <<historyItems, sortedHistory, domainData, connections,
                 visitEvents, i, failedPairs, transitionLog, loading, runIndex,
                 previous>>
  /\ UNCHANGED workerVars
  /\ UNCHANGED analyzerVars
  /\ UNCHANGED cacheVars
  /\ UNCHANGED protocolVars

(* Line 484 alone, on the nodes and links of a history of six domains *)
CalculateGraphMetrics ==
  /\ pc = "calculateGraphMetrics"
  /\ graphMetrics' = calculateGraphMetrics(domainData, connections)
  /\ pc' = "graphMetricsDone"
  /\ UNCHANGED <<historyItems, sortedHistory, domainData, connections,
                 visitEvents, i, failedPairs, transitionLog, loading,
                 transitions, chains, chainRuns, focusSessions, result,
                 complexityByHour, temporalAnalysis, insights, runIndex,
                 previous>>
  /\ UNCHANGED workerVars
  /\ UNCHANGED analyzerVars
  /\ UNCHANGED cacheVars
  /\ UNCHANGED protocolVars

(* What a finished run leaves on the instance and returns *)
Report ==
  [temporalAnalysis |-> temporalAnalysis,
   hourlyComplexity |-> hourlyComplexity(complexityByHour),
   focusSessions |-> focusSessions,
   chains |-> chains,
   graphMetrics |-> graphMetrics,
   insights |-> insights,
   nodes |-> result.nodes,
   links |-> result.links]

(* The histories the Refresh button is followed on *)
UrlArxiv == Url(Https \o <<"a", "r", "x", "i", "v", ".", "o", "r", "g">>, TRUE, <<"a", "r", "x", "i", "v", ".", "o", "r", "g">>)

RefreshHistories ==
  LET visit(url, t) == [url |-> url, title |-> <<>>, lastVisitTime |-> t]
  IN {<<visit(UrlWwwA, 0)>>, <<visit(UrlArxiv, 0)>>,
      <<visit(UrlWwwA, 0), visit(UrlArxiv, 300000)>>}

(* The click handler of refresh-btn (lines 176-178): loadAndVisualize runs
   again on the same instance, on the history the browser returns now. The
   locals of the finished call are gone; the fields of the instance stay as
   they are until the new run assigns them *)
Refresh ==
  /\ pc = "done"
  /\ runIndex < MaxRuns
  /\ historyItems' \in RefreshHistories
  /\ runIndex' = runIndex + 1
  /\ previous' = [ran |-> TRUE, sortedHistory |-> sortedHistory,
                  transitionLog |-> transitionLog, report |-> Report]
  /\ pc' = "processHistoryData"
  /\ loading' = [text |-> "Processing", i |-> 0]
  /\ sortedHistory' = <<>>
  /\ domainData' = <<>>
  /\ connections' = <<>>
  /\ visitEvents' = <<>>
  /\ i' = 0
  /\ failedPairs' = {}
  /\ transitionLog' = <<>>
  /\ result' = NoResult
  /\ UNCHANGED <<transitions, chains, chainRuns, focusSessions,
                 complexityByHour, temporalAnalysis, graphMetrics, insights>>
  /\ UNCHANGED workerVars
  /\ UNCHANGED analyzerVars
  /\ UNCHANGED cacheVars
  /\ UNCHANGED protocolVars

----------------------------------------------------------------------------
(* processHistoryDataFallback of the visualizer                            *)

(* connections.set / weight++ of processHistoryDataFallback *)
RecordConnectionFallback(conns, da, db, transitionType, similarity, bTime) ==
  LET key == connectionKey(da, db)
  IN IF ~HasKey(conns, key)
     THEN Append(conns, [key |-> key, source |-> da, target |-> db, weight |-> 1,
                         transitionType |-> transitionType,
                         color |-> TRANSITION_COLORS[transitionType],
                         lastTime |-> bTime, similarity |-> similarity])
     ELSE LET pos == KeyPos(conns, key)
              c == conns[pos]
          IN [conns EXCEPT ![pos] =
                [c EXCEPT !.weight = @ + 1,
                          !.lastTime = bTime,
                          !.similarity = IF RatGt(similarity, @)
                                         THEN similarity ELSE @]]

ClassifyByTime(timeDiff) ==
  IF timeDiff <= TIME_RELATED THEN "related"
  ELSE IF timeDiff <= TIME_TOPIC_SHIFT THEN "topic_shift"
  ELSE "context_switch"

(* Lines 859-868 *)
FallbackStart ==
  /\ pc = "processHistoryDataFallback"
  /\ LET sorted == FilterAndSort(historyItems)
     IN /\ sortedHistory' = sorted
        /\ domainData' = BuildDomainData(sorted, <<>>)
  /\ connections' = <<>>
  /\ i' = 0
  /\ historyItems' = <<>>
  /\ pc' = "fallbackLoop"
  /\ UNCHANGED <<visitEvents, failedPairs, transitionLog, loading, transitions,
                 chains, chainRuns, focusSessions, result>>
  /\ UNCHANGED workerVars
  /\ UNCHANGED analyzerVars
  /\ UNCHANGED reportVars
  /\ UNCHANGED cacheVars
  /\ UNCHANGED protocolVars

(* Lines 869-879: one iteration *)
FallbackPair ==
  /\ pc = "fallbackLoop"
  /\ i < Len(sortedHistory) - 1
  /\ LET a == sortedHistory[i + 1]
         b == sortedHistory[i + 2]
         da == extractDomain(a.url)
         db == extractDomain(b.url)
         timeDiff == b.lastVisitTime - a.lastVisitTime
     IN IF da = db
        THEN UNCHANGED connections
        ELSE connections' =
               RecordConnectionFallback(connections, da, db,
                                        ClassifyByTime(timeDiff),
                                        calculateBasicSimilarity(a, b),
                                        b.lastVisitTime)
  /\ i' = i + 1
  /\ UNCHANGED <<pc, historyItems, sortedHistory, domainData, visitEvents,
                 failedPairs, transitionLog, loading, transitions, chains,
                 chainRuns, focusSessions, result>>
  /\ UNCHANGED workerVars
  /\ UNCHANGED analyzerVars
  /\ UNCHANGED reportVars
  /\ UNCHANGED cacheVars
  /\ UNCHANGED protocolVars

(* Lines 880-881 *)
FallbackFinish ==
  /\ pc = "fallbackLoop"
  /\ ~(i < Len(sortedHistory) - 1)
  /\ transitions' = calculateTransitionStats(connections)
  /\ result' = [returned |-> TRUE, nodes |-> domainData, links |-> connections]
  /\ pc' = "fallbackDone"
  /\ UNCHANGED <<historyItems, sortedHistory, domainData, connections,
                 visitEvents, i, failedPairs, transitionLog, loading, chains,
                 chainRuns, focusSessions>>
  /\ UNCHANGED workerVars
  /\ UNCHANGED analyzerVars
  /\ UNCHANGED reportVars
  /\ UNCHANGED cacheVars
  /\ UNCHANGED protocolVars

----------------------------------------------------------------------------
(* processHistoryDataFallback of popup.js                                  *)

(* The key an edge of the popup fallback is found under: the key of the
   pair if present, else the key of the reversed pair if present *)
PopupRecordConnection(conns, sourceDomain, targetDomain, transitionType) ==
  LET key == connectionKey(sourceDomain, targetDomain)
      reverseKey == connectionKey(targetDomain, sourceDomain)
  IN IF ~HasKey(conns, key) /\ ~HasKey(conns, reverseKey)
     THEN Append(conns, [key |-> key, source |-> sourceDomain,
                         target |-> targetDomain, weight |-> 1,
                         transitionType |-> transitionType,
                         color |-> TRANSITION_COLORS[transitionType]])
     ELSE IF HasKey(conns, key)
     THEN [conns EXCEPT ![KeyPos(conns, key)].weight = @ + 1]
     ELSE [conns EXCEPT ![KeyPos(conns, reverseKey)].weight = @ + 1]

(* popup.js lines 458-492: the nodes are built from the records in input
   order, skipping filtered domains; the transitions use the sorted list *)
PopupFallbackStart ==
  /\ pc = "popupProcessHistoryDataFallback"
  /\ domainData' = BuildDomainData(FilterDomains(historyItems), <<>>)
  /\ sortedHistory' = FilterAndSort(historyItems)
  /\ connections' = <<>>
  /\ i' = 0
  /\ historyItems' = <<>>
  /\ pc' = "popupFallbackLoop"
  /\ UNCHANGED <<visitEvents, failedPairs, transitionLog, loading, transitions,
                 chains, chainRuns, focusSessions, result>>
  /\ UNCHANGED workerVars
  /\ UNCHANGED analyzerVars
  /\ UNCHANGED reportVars
  /\ UNCHANGED cacheVars
  /\ UNCHANGED protocolVars

(* popup.js lines 494-530: one iteration *)
PopupFallbackPair ==
  /\ pc = "popupFallbackLoop"
  /\ i < Len(sortedHistory) - 1
  /\ LET current == sortedHistory[i + 1]
         next == sortedHistory[i + 2]
         timeDiff == next.lastVisitTime - current.lastVisitTime
         sourceDomain == extractDomain(current.url)
         targetDomain == extractDomain(next.url)
         transitionType == IF timeDiff > TIME_RELATED THEN "topic_shift"
                           ELSE "related"
     IN IF timeDiff <= TIME_TOPIC_SHIFT /\ sourceDomain # targetDomain
        THEN connections' = PopupRecordConnection(connections, sourceDomain,
                                                  targetDomain, transitionType)
        ELSE UNCHANGED connections
  /\ i' = i + 1
  /\ UNCHANGED <<pc, historyItems, sortedHistory, domainData, visitEvents,
                 failedPairs, transitionLog, loading, transitions, chains,
                 chainRuns, focusSessions, result>>
  /\ UNCHANGED workerVars
  /\ UNCHANGED analyzerVars
  /\ UNCHANGED reportVars
  /\ UNCHANGED cacheVars
  /\ UNCHANGED protocolVars

(* popup.js lines 532-558 *)
PopupFallbackFinish ==
  /\ pc = "popupFallbackLoop"
  /\ ~(i < Len(sortedHistory) - 1)
  /\ result' = [returned |-> TRUE, nodes |-> domainData, links |-> connections]
  /\ pc' = "popupFallbackDone"
  /\ UNCHANGED <<historyItems, sortedHistory, domainData, connections,
                 visitEvents, i, failedPairs, transitionLog, loading,
                 transitions, chains, chainRuns, focusSessions>>
  /\ UNCHANGED workerVars
  /\ UNCHANGED analyzerVars
  /\ UNCHANGED reportVars
  /\ UNCHANGED cacheVars
  /\ UNCHANGED protocolVars

----------------------------------------------------------------------------
(* analyze of the dashboard (analysis.js)                                  *)

(* analysis.js line 37 *)
dashExtractDomain(url) ==
  IF url.parses THEN ReplaceFirst(url.hostname, <<"w", "w", "w", ".">>, <<>>)
  ELSE url.href

(* analysis.js lines 19-26 *)
jaccard(a, b) ==
  LET sa == MatchWords(ToLowerCase(a))
      sb == MatchWords(ToLowerCase(b))
      inter == sa \cap sb
      uni == sa \cup sb
  IN IF Cardinality(uni) # 0 THEN Rat(Cardinality(inter), Cardinality(uni))
     ELSE Rat(0, 1)

(* history.map(h => ({domain, title: h.title || '', time})) ; id is the
   identity of the mapped object *)
DashEvents(history) ==
  [k \in 1..Len(history) |->
     [id |-> k, domain |-> dashExtractDomain(history[k].url),
      title |-> history[k].title, time |-> history[k].lastVisitTime]]

(* analysis.js line 50: the focus-session loop and its trailing flush *)
RECURSIVE DashFocusLoop(_, _, _, _)
DashFocusLoop(events, k, cur, focus) ==
  IF k > Len(events) THEN (IF Len(cur) # 0 THEN Append(focus, cur) ELSE focus)
  ELSE LET e == events[k]
       IN IF cur = <<>> THEN DashFocusLoop(events, k + 1, <<e>>, focus)
          ELSE LET prev == cur[Len(cur)]
                   sim == jaccard(prev.title \o prev.domain,
                                 e.title \o e.domain)
               IN IF /\ e.time - prev.time <= 5 * 60 * 1000
                     /\ (prev.domain = e.domain \/ RatGt(sim, Rat(4, 10)))
                  THEN DashFocusLoop(events, k + 1, Append(cur, e), focus)
                  ELSE DashFocusLoop(events, k + 1, <<e>>, Append(focus, cur))

(* analysis.js line 51 *)
DashSummarizeFocus(evts) ==
  [durationMinutes |-> RoundDiv((evts[Len(evts)].time - evts[1].time) * 100, 60000),
   pages |-> Len(evts),
   events |-> evts]

(* analysis.js line 58: the chain loop and its trailing flush *)
RECURSIVE DashChainLoop(_, _, _, _)
DashChainLoop(events, k, chain, out) ==
  IF k > Len(events) THEN (IF Len(chain) > 1 THEN Append(out, chain) ELSE out)
  ELSE LET e == events[k]
       IN IF chain = <<>> THEN DashChainLoop(events, k + 1, <<e>>, out)
          ELSE LET prev == chain[Len(chain)]
                   sim == jaccard(prev.title \o prev.domain,
                                 e.title \o e.domain)
               IN IF e.time - prev.time <= 5 * 60 * 1000 /\ RatGt(sim, Rat(3, 10))
                  THEN DashChainLoop(events, k + 1, Append(chain, e), out)
                  ELSE DashChainLoop(events, k + 1, <<e>>,
                                     IF Len(chain) > 1 THEN Append(out, chain)
                                     ELSE out)

(* analysis.js line 59: dur is in minutes, and 1 minute when it is 0 *)
DashSummarizeChain(c) ==
  LET diff == c[Len(c)].time - c[1].time
  IN [length |-> Len(c),
      durationMinutes |-> IF diff = 0 THEN 100 ELSE RoundDiv(diff * 100, 60000),
      scentStrength |-> IF diff = 0 THEN Len(c) * 100
                        ELSE RoundDiv(Len(c) * 60000 * 100, diff)]

(* analysis.js lines 39-63, the part on sessions and chains *)
Analyze ==
  /\ pc = "analyze"
  /\ LET events == SortByTime(DashEvents(historyItems))
         focus == DashFocusLoop(events, 1, <<>>, <<>>)
         runs == DashChainLoop(events, 1, <<>>, <<>>)
     IN /\ visitEvents' = events
        /\ focusSessions' = [k \in 1..Len(focus) |-> DashSummarizeFocus(focus[k])]
        /\ chainRuns' = runs
        /\ chains' = [k \in 1..Len(runs) |-> DashSummarizeChain(runs[k])]
  /\ historyItems' = <<>>
  /\ pc' = "analyzed"
  /\ UNCHANGED <<sortedHistory, domainData, connections, i, failedPairs,
                 transitionLog, loading, transitions, result>>
  /\ UNCHANGED workerVars
  /\ UNCHANGED analyzerVars
  /\ UNCHANGED reportVars
  /\ UNCHANGED cacheVars
  /\ UNCHANGED protocolVars

----------------------------------------------------------------------------
(* The message handler of the embedding worker                             *)

(* self.onmessage for a message of type classifyTransition *)
OnClassifyTransitionMessage ==
  /\ pc = "worker"
  /\ message.id < MaxCalls
  /\ \E timeDiffMs \in WorkerTimeDiffs, outcome \in WorkerOutcomes :
       LET id == message.id + 1
       IN /\ message' = [id |-> id, type |-> "classifyTransition",
                         timeDiffMs |-> timeDiffMs]
          /\ IF outcome.throws
             THEN /\ posted' = [id |-> id, error |-> TRUE, type |-> "none",
                                sim |-> 0]
                  /\ UNCHANGED <<similaritySamples, thresholds, persisted>>
             ELSE LET noted == noteSimilarity(similaritySamples, thresholds,
                                              persisted, outcome.sim)
                  IN /\ similaritySamples' = noted.samples
                     /\ thresholds' = noted.thresholds
                     /\ persisted' = noted.stored
                     /\ posted' = [id |-> id, error |-> FALSE,
                                   type |-> classifyTransition(
                                              outcome.sim, timeDiffMs,
                                              noted.thresholds),
                                   sim |-> outcome.sim]
  /\ UNCHANGED <<pc, historyItems, sortedHistory, domainData, connections,
                 visitEvents, i, failedPairs, transitionLog, loading,
                 transitions, chains, chainRuns, focusSessions, result>>
  /\ UNCHANGED analyzerVars
  /\ UNCHANGED reportVars
  /\ UNCHANGED cacheVars
  /\ UNCHANGED protocolVars

Next ==
  \/ ProcessHistoryDataStart
  \/ AnalyzePair
  \/ FinishPipeline
  \/ FallbackStart
  \/ FallbackPair
  \/ FallbackFinish
  \/ PopupFallbackStart
  \/ PopupFallbackPair
  \/ PopupFallbackFinish
  \/ Analyze
  \/ OnClassifyTransitionMessage
  \/ CalculateSimilarity
  \/ GetEmbedding
  \/ SetEmbedding
  \/ CalculateGraphMetrics

Spec == Init /\ [][Next]_vars

(* One visualizer instance whose Refresh button is used: the runs of
   processHistoryData follow one another on the fields of the instance *)
InitRefresh ==
  /\ pc = "processHistoryData"
  /\ domainData = <<>>
  /\ connections = <<>>
  /\ historyItems \in RefreshHistories
  /\ similaritySamples = <<>>
  /\ persisted = NoThresholds
  /\ lru = <<>>
  /\ store = <<>>
  /\ cacheHistory = NoHistory
  /\ Constructed

NextRefresh ==
  \/ ProcessHistoryDataStart
  \/ AnalyzePair
  \/ FinishPipeline
  \/ Refresh

SpecRefresh == InitRefresh /\ [][NextRefresh]_vars

----------------------------------------------------------------------------
(* The request/reply protocol of the embedding worker                      *)

(* The types onmessage dispatches on, and one it does not know *)
MessageTypes ==
  {"init", "embedBatch", "similarityForPair", "cosine", "shortlistCandidates",
   "classifyTransition", "other"}

(* The types whose handler onmessage awaits *)
AwaitedTypes == {"init", "embedBatch", "similarityForPair", "classifyTransition"}

(* The types whose handler reads and writes the vectors store (embedOne) *)
StoreTypes == {"embedBatch", "similarityForPair", "classifyTransition"}

(* What a handler can throw: an Error with a message, an Error without one,
   and null, the value of tx.error at the time tx.onerror runs, with which
   withStore rejects (part_002:42) *)
Null == [null |-> TRUE]

Throwables(type) ==
  {[message |-> "failed"], [message |-> ""]}
    \cup (IF type \in StoreTypes THEN {Null} ELSE {})

(* How the call of a handler ends *)
HandlerOutcomes(type) ==
  IF type = "other" THEN {[throws |-> FALSE]}
  ELSE {[throws |-> FALSE]} \cup
       {[throws |-> TRUE, err |-> err] : err \in Throwables(type)}

(* err.message || String(err) *)
ErrorText(err) == IF err.message # "" THEN err.message ELSE "Error"

(* The catch block of onmessage: reading err.message of null throws inside
   the catch, and nothing is posted *)
Catch(id, err) ==
  IF err = Null THEN <<>>
  ELSE <<[id |-> id, error |-> ErrorText(err)]>>

(* What the call of onmessage for message {id, type} posts when its handler
   ends with outcome *)
Posts(id, type, outcome) ==
  IF outcome.throws THEN Catch(id, outcome.err)
  ELSE IF type = "other"
       THEN <<[id |-> id, result |-> [error |-> "unknown type"]]>>
       ELSE <<[id |-> id, result |-> [of |-> type]]>>

(* self.onmessage up to its first await: the handlers that are not awaited
   end, and the reply is posted, in the same turn *)
OnMessage ==
  /\ pc = "onmessage"
  /\ Len(requests) < MaxMessages
  /\ \E type \in MessageTypes :
       LET id == Len(requests) + 1
       IN IF type \in AwaitedTypes
          THEN /\ requests' = Append(requests, [id |-> id, type |-> type,
                                                 state |-> "awaiting"])
               /\ replies' = replies
          ELSE \E outcome \in HandlerOutcomes(type) :
                 /\ requests' = Append(requests, [id |-> id, type |-> type,
                                                   state |-> "ended"])
                 /\ replies' = replies \o Posts(id, type, outcome)
  /\ UNCHANGED <<pc, historyItems, sortedHistory, domainData, connections,
                 visitEvents, i, failedPairs, transitionLog, loading,
                 transitions, chains, chainRuns, focusSessions, result>>
  /\ UNCHANGED workerVars
  /\ UNCHANGED analyzerVars
  /\ UNCHANGED reportVars
  /\ UNCHANGED cacheVars

(* The rest of a call of onmessage: the awaited handler of one of the
   messages in flight returns or throws *)
HandlerSettles ==
  /\ pc = "onmessage"
  /\ \E k \in 1..Len(requests) :
       /\ requests[k].state = "awaiting"
       /\ \E outcome \in HandlerOutcomes(requests[k].type) :
            /\ requests' = [requests EXCEPT ![k].state = "ended"]
            /\ replies' = replies \o Posts(requests[k].id, requests[k].type,
                                            outcome)
  /\ UNCHANGED <<pc, historyItems, sortedHistory, domainData, connections,
                 visitEvents, i, failedPairs, transitionLog, loading,
                 transitions, chains, chainRuns, focusSessions, result>>
  /\ UNCHANGED workerVars
  /\ UNCHANGED analyzerVars
  /\ UNCHANGED reportVars
  /\ UNCHANGED cacheVars

InitProtocol ==
  /\ pc = "onmessage"
  /\ historyItems = <<>>
  /\ similaritySamples = <<>>
  /\ persisted = NoThresholds
  /\ domainData = <<>>
  /\ connections = <<>>
  /\ lru = <<>>
  /\ store = <<>>
  /\ cacheHistory = NoHistory
  /\ Constructed

NextProtocol ==
  \/ OnMessage
  \/ HandlerSettles

(* Every awaited promise settles: a call of onmessage that is waiting is
   resumed *)
SpecProtocol ==
  InitProtocol /\ [][NextProtocol]_vars /\ WF_vars(HandlerSettles)

----------------------------------------------------------------------------
(* Properties of the segmentation                                          *)

SegmentationDone == pc \in {"done", "analyzed"}

RECURSIVE ConcatSessionEvents(_)
ConcatSessionEvents(sessions) ==
  IF sessions = <<>> THEN <<>>
  ELSE Head(sessions).events \o ConcatSessionEvents(Tail(sessions))

RECURSIVE SumOver(_)
SumOver(nums) == IF nums = <<>> THEN 0 ELSE Head(nums) + SumOver(Tail(nums))

SortedByTime(events) ==
  \A k \in 1..(Len(events) - 1) : events[k].time <= events[k + 1].time

Ids(events) == {events[k].id : k \in 1..Len(events)}

FiveMinutes == 5 * 60 * 1000

Jaccard(prev, e) == jaccardSimilarityTokens(prev.title \o prev.domain,
                                            e.title \o e.domain)

(* C1: the focus sessions partition the timestamp-sorted event list exactly:
   their events, concatenated in emission order, are the sorted events; the
   page counts add up to the number of events; no session is empty. *)
C1_SessionsPartitionEvents ==
  SegmentationDone =>
    /\ SortedByTime(visitEvents)
    /\ Cardinality(Ids(visitEvents)) = Len(visitEvents)
    /\ ConcatSessionEvents(focusSessions) = visitEvents
    /\ SumOver([k \in 1..Len(focusSessions) |-> focusSessions[k].pages])
         = Len(visitEvents)
    /\ \A k \in 1..Len(focusSessions) :
         /\ focusSessions[k].pages = Len(focusSessions[k].events)
         /\ focusSessions[k].pages >= 1

C1_Witness ==
  /\ pc = "done"
  /\ Len(focusSessions) = 2
  /\ focusSessions[1].pages = 2
  /\ focusSessions[2].pages = 1

(* The continuity predicate of focus sessions as the specification words it *)
C2_Continuous(prev, e) ==
  /\ e.time - prev.time <= FiveMinutes
  /\ (prev.domain = e.domain \/ RatGt(Jaccard(prev, e), Rat(4, 10)))

(* C2: every focus session is a maximal continuous run: consecutive events
   inside a session satisfy the continuity predicate, and the last event of a
   session with the first event of the next one does not. *)
C2_SessionsAreMaximalRuns ==
  SegmentationDone =>
    /\ \A k \in 1..Len(focusSessions) :
         \A j \in 1..(focusSessions[k].pages - 1) :
           C2_Continuous(focusSessions[k].events[j], focusSessions[k].events[j + 1])
    /\ \A k \in 1..(Len(focusSessions) - 1) :
         ~C2_Continuous(focusSessions[k].events[focusSessions[k].pages],
                        focusSessions[k + 1].events[1])

C2_Witness ==
  /\ pc = "done"
  /\ Len(focusSessions) = 2
  /\ focusSessions[1].pages = 2
  /\ focusSessions[1].events[1].domain # focusSessions[1].events[2].domain
  /\ focusSessions[2].events[1].time - focusSessions[1].events[2].time <= FiveMinutes

(* C3: every emitted chain has length >= 2, its consecutive events are at
   most 5 minutes apart with jaccard > 0.3, chains are disjoint contiguous
   runs of the sorted events, and their lengths add up to at most the number
   of events. *)
C3_ChainsAreRunsOfTwoOrMore ==
  SegmentationDone =>
    /\ Len(chains) = Len(chainRuns)
    /\ \A k \in 1..Len(chainRuns) :
         /\ chains[k].length = Len(chainRuns[k])
         /\ chains[k].length >= 2
         /\ \A j \in 1..(Len(chainRuns[k]) - 1) :
              /\ chainRuns[k][j + 1].time - chainRuns[k][j].time <= FiveMinutes
              /\ RatGt(Jaccard(chainRuns[k][j], chainRuns[k][j + 1]), Rat(3, 10))
         /\ \E o \in 0..Len(visitEvents) :
              chainRuns[k] = SubSeq(visitEvents, o + 1, o + Len(chainRuns[k]))
    /\ \A k, m \in 1..Len(chainRuns) :
         k # m => Ids(chainRuns[k]) \cap Ids(chainRuns[m]) = {}
    /\ SumOver([k \in 1..Len(chains) |-> chains[k].length]) <= Len(visitEvents)

C3_Witness ==
  /\ pc = "done"
  /\ Len(chains) = 1
  /\ chains[1].length = 2
  /\ Len(visitEvents) = 3
  /\ chainRuns[1][2].id = 2

InOneSession(run) ==
  \E k \in 1..Len(focusSessions) : Ids(run) \subseteq Ids(focusSessions[k].events)

(* C4 as claimed: every chain lies inside a single focus session. *)
C4_ChainInsideOneSession ==
  SegmentationDone => \A k \in 1..Len(chainRuns) : InOneSession(chainRuns[k])

StrongPair(prev, e) ==
  prev.domain = e.domain \/ RatGt(Jaccard(prev, e), Rat(4, 10))

(* C4 amended: a chain lies inside a single focus session when each of its
   consecutive pairs is on one domain or has jaccard > 0.4; a chain pair on
   different domains with jaccard <= 0.4 is split by a focus-session
   boundary. *)
C4_ChainInsideSessionWhenStrong ==
  SegmentationDone =>
    \A k \in 1..Len(chainRuns) :
      /\ (\A j \in 1..(Len(chainRuns[k]) - 1) :
            StrongPair(chainRuns[k][j], chainRuns[k][j + 1]))
           => InOneSession(chainRuns[k])
      /\ \A j \in 1..(Len(chainRuns[k]) - 1) :
            ~StrongPair(chainRuns[k][j], chainRuns[k][j + 1])
              => ~InOneSession(<<chainRuns[k][j], chainRuns[k][j + 1]>>)

C4_Witness ==
  /\ pc = "done"
  /\ Len(chainRuns) = 1
  /\ Len(chainRuns[1]) = 3
  /\ chainRuns[1][1].domain # chainRuns[1][2].domain
  /\ StrongPair(chainRuns[1][1], chainRuns[1][2])
  /\ ~StrongPair(chainRuns[1][2], chainRuns[1][3])
  /\ Len(focusSessions) = 2

----------------------------------------------------------------------------
(* Properties of the transition edges                                      *)

InPairLoop == pc \in {"transitionLoop", "fallbackLoop", "popupFallbackLoop"}

HasPair == InPairLoop /\ i < Len(sortedHistory) - 1

(* The domains of the pair the loop is about to process *)
PairSource == extractDomain(sortedHistory[i + 1].url)

PairTarget == extractDomain(sortedHistory[i + 2].url)

RECURSIVE TotalWeight(_)
TotalWeight(conns) ==
  IF conns = <<>> THEN 0 ELSE Head(conns).weight + TotalWeight(Tail(conns))

(* The edges a step created or whose weight it changed *)
Touched(k) ==
  k > Len(connections) \/ connections'[k].weight # connections[k].weight

(* C5: no edge has its source domain equal to its target domain, and a step
   over a pair of time-adjacent visits on one domain leaves every edge as it
   was, in processHistoryData and in processHistoryDataFallback. *)
C5_NoSelfTransitions ==
  [][ /\ \A k \in 1..Len(connections') :
           connections'[k].source # connections'[k].target
      /\ (HasPair /\ PairSource = PairTarget) => connections' = connections
    ]_vars

C5_Witness ==
  /\ pc = "transitionLoop"
  /\ i = 2
  /\ extractDomain(sortedHistory[2].url) = extractDomain(sortedHistory[3].url)
  /\ Len(connections) = 1
  /\ connections[1].weight = 1

(* The classified pairs between one ordered pair of domains *)
PairsOf(source, target) ==
  {k \in 1..Len(transitionLog) :
     transitionLog[k].source = source /\ transitionLog[k].target = target}

MaxTime(ks) ==
  CHOOSE t \in {transitionLog[k].nextTime : k \in ks} :
    \A k \in ks : transitionLog[k].nextTime <= t

MaxSim(ks) ==
  CHOOSE v \in {transitionLog[k].sim : k \in ks} :
    \A k \in ks : RatGeq(v, transitionLog[k].sim)

(* The pairs of time-adjacent visits on different domains among the first n
   pairs *)
DifferentDomainPairs(n) ==
  {k \in 1..n : extractDomain(sortedHistory[k].url)
                  # extractDomain(sortedHistory[k + 1].url)}

(* C6 as claimed: the transitions between one ordered pair of domains
   accumulate into one edge, whose weight is their number, whose lastTime is
   the latest target timestamp and whose similarity is the largest seen; the
   weights add up to the number of time-adjacent pairs on different
   domains. *)
C6_EdgeAggregatesItsOrderedPair ==
  pc \in {"transitionLoop", "done"} =>
    /\ \A k \in 1..Len(transitionLog) :
         Cardinality({e \in 1..Len(connections) :
                        /\ connections[e].source = transitionLog[k].source
                        /\ connections[e].target = transitionLog[k].target}) = 1
    /\ \A e \in 1..Len(connections) :
         LET mine == PairsOf(connections[e].source, connections[e].target)
         IN /\ mine # {}
            /\ connections[e].weight = Cardinality(mine)
            /\ connections[e].lastTime = MaxTime(mine)
            /\ RatGeq(connections[e].similarity, MaxSim(mine))
            /\ RatGeq(MaxSim(mine), connections[e].similarity)
    /\ TotalWeight(connections) = Cardinality(DifferentDomainPairs(i))

(* C7 as claimed: edges are keyed by the ordered pair: the step over a pair
   source -> target creates or increments only an edge from source to target,
   so a transition B -> A never lands on the edge A -> B, in the main and in
   the fallback pipelines. *)
C7_NoReverseMerging ==
  [][ HasPair =>
        \A k \in 1..Len(connections') :
          Touched(k) => /\ connections'[k].source = PairSource
                        /\ connections'[k].target = PairTarget
    ]_vars

ThirtyMinutes == 30 * 60 * 1000

(* The label the three-branch policy gives a pair, from its time difference
   and from whether its similarity reaches each threshold *)
C8_Label(timeDiff, reachesRelated, reachesTopicShift) ==
  CASE timeDiff <= FiveMinutes /\ reachesRelated -> "related"
    [] ~(timeDiff <= FiveMinutes /\ reachesRelated)
         /\ (reachesTopicShift \/ timeDiff <= ThirtyMinutes) -> "topic_shift"
    [] OTHER -> "context_switch"

(* The pairs processHistoryData classified in its try block *)
ClassifiedEntries == {k \in 1..Len(transitionLog) : ~transitionLog[k].failed}

(* C8: the label of a transition is the three-branch function of its time
   difference, its similarity and the thresholds in force, in the try block
   of processHistoryData and in classifyTransition of the worker; hence a
   pair more than 30 minutes apart whose similarity is below topicShift is
   context_switch and a pair at most 30 minutes apart never is. *)
C8_ClassificationIsThreeBranch ==
  /\ \A k \in ClassifiedEntries :
       LET e == transitionLog[k]
           reachesRelated == RatGeq(e.sim, SEM_CFG.thresholds.related)
           reachesTopicShift == RatGeq(e.sim, SEM_CFG.thresholds.topicShift)
       IN /\ e.transitionType
               = C8_Label(e.timeDiff, reachesRelated, reachesTopicShift)
          /\ (e.timeDiff > ThirtyMinutes /\ ~reachesTopicShift)
               => e.transitionType = "context_switch"
          /\ e.timeDiff <= ThirtyMinutes
               => e.transitionType # "context_switch"
  /\ (posted.id > 0 /\ ~posted.error) =>
       /\ posted.type = C8_Label(message.timeDiffMs,
                                 posted.sim >= thresholds.related,
                                 posted.sim >= thresholds.topicShift)
       /\ (message.timeDiffMs > ThirtyMinutes
             /\ posted.sim < thresholds.topicShift)
            => posted.type = "context_switch"
       /\ message.timeDiffMs <= ThirtyMinutes
            => posted.type # "context_switch"

C8_Witness ==
  /\ pc = "done"
  /\ Len(transitionLog) = 2
  /\ ClassifiedEntries = {1, 2}
  /\ transitionLog[1].timeDiff = FiveMinutes
  /\ transitionLog[1].transitionType = "related"
  /\ transitionLog[2].timeDiff > ThirtyMinutes
  /\ transitionLog[2].transitionType = "context_switch"

(* The pairs processHistoryData classified in its catch block *)
FailedEntries == {k \in 1..Len(transitionLog) : transitionLog[k].failed}

(* C9 as claimed: a pair classified after a similarity failure keeps the time
   windows of the normal policy: more than 5 minutes apart it is never
   related, at most 30 minutes apart it is never context_switch. *)
C9_FailurePathKeepsTimeWindows ==
  \A k \in FailedEntries :
    /\ transitionLog[k].timeDiff > FiveMinutes
         => transitionLog[k].transitionType # "related"
    /\ transitionLog[k].timeDiff <= ThirtyMinutes
         => transitionLog[k].transitionType # "context_switch"

(* C10: a similarity failure on one pair does not abort processHistoryData:
   the step that fails records or increments the edge of its pair and moves
   on to the next pair, no error leaves the function, and at the return every
   pair on different domains has been classified and nodes and links are
   handed back. *)
C10_SimilarityFailureDoesNotAbort ==
  [][ /\ (Len(transitionLog') > Len(transitionLog)
            /\ transitionLog'[Len(transitionLog')].failed)
          => /\ TotalWeight(connections') = TotalWeight(connections) + 1
             /\ \E k \in 1..Len(connections') :
                  /\ Touched(k)
                  /\ connections'[k].key = connectionKey(PairSource, PairTarget)
             /\ i' = i + 1
             /\ pc' = "transitionLoop"
      /\ pc' # "thrown"
      /\ pc' = "done"
          => /\ result'.returned
             /\ result'.nodes = domainData'
             /\ result'.links = connections'
             /\ {transitionLog'[k].i + 1 : k \in 1..Len(transitionLog')}
                  = DifferentDomainPairs(Len(sortedHistory) - 1)
             /\ TotalWeight(result'.links) = Len(transitionLog')
    ]_vars

C10_Witness ==
  /\ pc = "done"
  /\ Len(transitionLog) = 2
  /\ transitionLog[1].failed
  /\ ~transitionLog[2].failed
  /\ result.returned
  /\ Len(result.links) = 2

----------------------------------------------------------------------------
(* Properties of the similarity backends                                   *)

(* What calculateSimilarity(itemA, itemB) returns in the current state *)
Returns(itemA, itemB) ==
  IF cacheKey(itemA, itemB) \in DOMAIN cache
  THEN cache[cacheKey(itemA, itemB)]
  ELSE Computed[<<itemA, itemB>>].finalSimilarity

(* C11 as claimed: after any sequence of earlier calls on the analyzer,
   calculateSimilarity(a, b) and calculateSimilarity(b, a) return the same
   score. *)
C11_SimilarityIsSymmetric ==
  pc = "analyzer" =>
    \A itemA \in AnalyzerItems, itemB \in AnalyzerItems :
      RatEq(Returns(itemA, itemB), Returns(itemB, itemA))

(* C12 as claimed: calculateSimilarity(a, a) is 1.0 for every item whose
   feature token list is not empty, the items with a malformed URL
   included. *)
C12_SelfSimilarityIsOne ==
  pc = "analyzer" =>
    \A item \in AnalyzerItems :
      Computed[<<item, item>>].similarities.tokensA # <<>>
        => RatEq(Returns(item, item), Rat(1, 1))

(* C13 as claimed: every similarity score handed to classification lies in
   [0, 1]: the scores of the four-signal combiner and the cosine the
   embedding worker classifies with. *)
C13_ScoresWithinUnitInterval ==
  /\ pc = "analyzer" =>
       \A key \in DOMAIN cache :
         RatGeq(cache[key], Rat(0, 1)) /\ RatGeq(Rat(1, 1), cache[key])
  /\ (posted.id > 0 /\ ~posted.error) =>
       posted.sim >= 0 /\ posted.sim <= 1000

(* One domain string contains the other *)
C14_Contains(domainA, domainB) ==
  Includes(domainA, domainB) \/ Includes(domainB, domainA)

C14_SharedInstitutionalTld(domainA, domainB) ==
  /\ LastDotPart(domainA) = LastDotPart(domainB)
  /\ LastDotPart(domainA) \in {<<"e", "d", "u">>, <<"g", "o", "v">>,
                               <<"o", "r", "g">>}

(* The sum of the domain-boosted weighting branch *)
C14_BoostedSum(s) ==
  RatAdd(RatAdd(RatAdd(RatScale(s.semantic, 2, 10), RatScale(s.jaccard, 3, 10)),
                RatAdd(RatScale(s.domain, 2, 10), RatScale(s.company, 3, 10))),
         RatAdd(Rat(4, 10),
                IF RatGeq(s.company, Rat(9, 10)) THEN Rat(3, 10) ELSE Rat(0, 1)))

(* C14 as claimed: the domain signal is 1.0 for identical domains, 0.6
   whenever one domain contains the other, 0.3 for a shared institutional
   TLD and 0 otherwise, and every pair of distinct domains of which one
   contains the other is weighted by the domain-boosted branch. *)
C14_ContainmentAlwaysScoresSixTenths ==
  computation.computed =>
    LET s == computation.similarities
    IN /\ RatEq(s.domain,
                IF s.domainA = s.domainB THEN Rat(1, 1)
                ELSE IF C14_Contains(s.domainA, s.domainB) THEN Rat(6, 10)
                ELSE IF C14_SharedInstitutionalTld(s.domainA, s.domainB)
                  THEN Rat(3, 10)
                ELSE Rat(0, 1))
       /\ (s.domainA # s.domainB /\ C14_Contains(s.domainA, s.domainB))
            => RatEq(computation.sum, C14_BoostedSum(s))

(* C14, amended: the domain signal is 1.0 for identical domains, else 0.3
   for a shared institutional TLD (also when one domain contains the other),
   else 0.6 when one domain contains the other, else 0; a pair of distinct
   domains of which one contains the other is weighted by the domain-boosted
   branch when the two do not share an institutional TLD. *)
C14_DomainSimilarityTldBeforeContainment ==
  computation.computed =>
    LET s == computation.similarities
    IN /\ RatEq(s.domain,
                IF s.domainA = s.domainB THEN Rat(1, 1)
                ELSE IF C14_SharedInstitutionalTld(s.domainA, s.domainB)
                  THEN Rat(3, 10)
                ELSE IF C14_Contains(s.domainA, s.domainB) THEN Rat(6, 10)
                ELSE Rat(0, 1))
       /\ (/\ s.domainA # s.domainB
           /\ C14_Contains(s.domainA, s.domainB)
           /\ ~C14_SharedInstitutionalTld(s.domainA, s.domainB))
            => RatEq(computation.sum, C14_BoostedSum(s))

C14_Witness ==
  /\ computation.computed
  /\ computation.similarities.domainA = HostAOrg
  /\ computation.similarities.domainB = HostBAOrg
  /\ RatEq(computation.similarities.domain, Rat(3, 10))
  /\ Cardinality(DOMAIN cache) = 2

----------------------------------------------------------------------------
(* Properties of the threshold calibration                                 *)

Window == SEMANTIC_CONFIG.calibration.window

AdjustEvery == SEMANTIC_CONFIG.calibration.adjustEvery

(* The step notes one more similarity sample *)
NotesSample ==
  /\ pc = "worker"
  /\ posted'.id = posted.id + 1
  /\ ~posted'.error

(* C15 as claimed: a fresh calibrator with the default thresholds that has
   observed exactly adjustEvery samples, all near 0.9, recalibrates and
   raises thresholds.related above its default. *)
C15_FirstHundredSamplesRaiseRelated ==
  [][ (/\ NotesSample
       /\ persisted = NoThresholds
       /\ thresholds = SEMANTIC_CONFIG.thresholds
       /\ Len(similaritySamples) = AdjustEvery - 1
       /\ Len(similaritySamples') = AdjustEvery
       /\ \A k \in 1..AdjustEvery :
            similaritySamples'[k] >= 800 /\ similaritySamples'[k] <= 1000)
        => thresholds'.related > SEMANTIC_CONFIG.thresholds.related
    ]_vars

(* C16: while fewer than window samples have been observed no noteSimilarity
   changes thresholds.related or thresholds.topicShift, and nothing is saved
   to the store. *)
C16_NoCalibrationBelowWindow ==
  [][ (NotesSample /\ Len(similaritySamples) + 1 < Window)
        => /\ thresholds' = thresholds
           /\ persisted' = persisted
           /\ similaritySamples' = Append(similaritySamples, posted'.sim)
    ]_vars

C16_Witness ==
  /\ pc = "worker"
  /\ posted.id = 1
  /\ ~posted.error
  /\ Len(similaritySamples) = AdjustEvery
  /\ \A k \in 1..(AdjustEvery - 1) : similaritySamples[k] = 900
  /\ thresholds = SEMANTIC_CONFIG.thresholds
  /\ persisted = NoThresholds

(* C17 as claimed: the sample buffer never holds more than window samples,
   and a sample noted on a full buffer evicts the oldest one. *)
C17_BufferNeverExceedsWindow ==
  pc = "worker" => Len(similaritySamples) <= Window

(* The step recalibrates: the sample it notes brings the count to a multiple
   of adjustEvery that is at least window *)
Recalibrates ==
  /\ NotesSample
  /\ (Len(similaritySamples) + 1) % AdjustEvery = 0
  /\ Len(similaritySamples) + 1 >= Window

(* C18: a recalibration leaves thresholds.related within
   [thresholds.topicShift + 0.01, 0.95] whatever the samples are, leaves
   thresholds.topicShift as it was, and saves the thresholds only when
   related moved by more than 0.005. *)
C18_RecalibrationClampsRelated ==
  [][ Recalibrates
        => /\ thresholds'.related >= thresholds'.topicShift + 10
           /\ thresholds'.related <= 950
           /\ thresholds'.topicShift = thresholds.topicShift
           /\ persisted' # persisted
                => /\ Abs(thresholds'.related - thresholds.related) > 5
                   /\ persisted'.saved
                   /\ persisted'.related = thresholds'.related
                   /\ persisted'.topicShift = thresholds'.topicShift
    ]_vars

C18_Witness ==
  /\ pc = "worker"
  /\ posted.id = 1
  /\ ~posted.error
  /\ Len(similaritySamples) = Window
  /\ thresholds.related = 503
  /\ persisted = NoThresholds

----------------------------------------------------------------------------
(* Properties of the report across runs on one instance                    *)

(* The report a freshly constructed visualizer leaves for the run that has
   just finished: the same events, nodes, links and statistics handed to the
   analyses, and a complexityByHour array that starts at zero *)
FreshReport ==
  LET temporal == analyzeTemporalPatterns(visitEvents)
      sessions == analyzeFocusSessions(visitEvents)
      byHour == AccumulateComplexity(NoComplexity, sessions)
      chainsOfRun == detectInformationChains(visitEvents)
      metrics == calculateGraphMetrics(domainData, connections)
  IN [temporalAnalysis |-> temporal,
      hourlyComplexity |-> hourlyComplexity(byHour),
      focusSessions |-> sessions,
      chains |-> [k \in 1..Len(chainsOfRun) |-> summarizeChain(chainsOfRun[k])],
      graphMetrics |-> metrics,
      insights |-> generateInsights(byHour, sessions, temporal,
                                    calculateTransitionStats(connections),
                                    metrics),
      nodes |-> domainData,
      links |-> connections]

(* C19 as claimed: a run on the instance that has run before leaves the
   hourly complexity, focus sessions, chains, graph metrics and insights a
   fresh instance leaves for the same history. *)
C19_ReportBuiltFreshEveryRun ==
  pc = "done" =>
    /\ Report.hourlyComplexity = FreshReport.hourlyComplexity
    /\ Report.focusSessions = FreshReport.focusSessions
    /\ Report.chains = FreshReport.chains
    /\ Report.graphMetrics = FreshReport.graphMetrics
    /\ Report.insights = FreshReport.insights

(* The run that has just finished had the input of the run before it: the
   same sorted history and the same similarity results for its pairs *)
SameInputAsPreviousRun ==
  /\ pc = "done"
  /\ previous.ran
  /\ previous.sortedHistory = sortedHistory
  /\ previous.transitionLog = transitionLog

(* C20 as claimed: two runs of the pipeline on the same sorted input leave
   the same temporal analysis, focus sessions, chains, graph metrics,
   insights, nodes and links. *)
C20_PipelineIsIdempotent ==
  SameInputAsPreviousRun =>
    /\ Report.temporalAnalysis = previous.report.temporalAnalysis
    /\ Report.focusSessions = previous.report.focusSessions
    /\ Report.chains = previous.report.chains
    /\ Report.graphMetrics = previous.report.graphMetrics
    /\ Report.insights = previous.report.insights
    /\ Report.nodes = previous.report.nodes
    /\ Report.links = previous.report.links

----------------------------------------------------------------------------
(* Properties of the report at its boundaries                              *)

(* processHistoryData has returned for an input list with no visit *)
EmptyRunDone == pc = "done" /\ sortedHistory = <<>> /\ visitEvents = <<>>

(* C21 as claimed: an empty input list does not throw and leaves zero nodes,
   zero edges, zero focus sessions, zero chains, an all-zero hourly activity,
   no peak hours, avgSessionMinutes 0, diversity 0 and an empty list of
   recommendations. *)
C21_EmptyInputYieldsEmptyReport ==
  EmptyRunDone =>
    /\ result.returned
    /\ result.nodes = <<>>
    /\ result.links = <<>>
    /\ focusSessions = <<>>
    /\ chains = <<>>
    /\ \A h \in Hours : temporalAnalysis.hourlyActivity[h] = 0
    /\ temporalAnalysis.peakHours = {}
    /\ temporalAnalysis.avgSessionMinutes = 0
    /\ DOMAIN graphMetrics.informationDiversity = {}
    /\ insights.recommendations = <<>>

(* The activity series is degenerate: no hour differs from another, so the
   denominator of every autocorrelation is 0 *)
DegenerateSeries ==
  \A h \in Hours :
    temporalAnalysis.hourlyActivity[h] = temporalAnalysis.hourlyActivity[0]

(* C22 as claimed: analyzeTemporalPatterns reports no rhythmPeriod (null)
   when the series is degenerate, and otherwise the lag among 90, 95, ...,
   120 with the greatest autocorrelation. *)
C22_DegenerateSeriesHasNoRhythm ==
  pc = "done" =>
    IF DegenerateSeries
    THEN temporalAnalysis.rhythmPeriod \notin 90..120
    ELSE temporalAnalysis.rhythmPeriod \in {90 + 5 * k : k \in 0..6}

(* C23 as claimed: on the events of a visit log, analyze of the dashboard
   emits the chains detectInformationChains and summarizeChain of the
   visualizer emit, with the same length, durationMinutes and scentStrength,
   also for a chain whose first and last event have one timestamp. *)
C23_DashboardChainsMatchVisualizer ==
  pc = "analyzed" =>
    LET runsOfVisualizer == detectInformationChains(visitEvents)
    IN /\ chainRuns = runsOfVisualizer
       /\ chains = [k \in 1..Len(runsOfVisualizer) |->
                      summarizeChain(runsOfVisualizer[k])]

----------------------------------------------------------------------------
(* Properties of the embedding cache                                       *)

(* The step is a call of getEmbedding or setEmbedding *)
CacheStep == pc = "embeddingCache" /\ cacheHistory'.clock = cacheHistory.clock + 1

(* C24: after setEmbedding(key, v) every getEmbedding(key) is a hit whose
   vector is v: from memory while the key is in the LRU, and from the store,
   which puts the key back into the LRU, once it has been evicted; a key
   never stored gives null. *)
C24_CacheReadsThrough ==
  [][ (CacheStep /\ cacheCall'.op = "get")
        => LET key == cacheCall'.key
           IN IF key \in DOMAIN cacheHistory.written
              THEN /\ cacheCall'.value = cacheHistory.written[key]
                   /\ cacheCall'.hit = IF key \in LruKeys(lru) THEN "memory"
                                       ELSE "disk"
                   /\ key \in LruKeys(lru')
                   /\ LruEntry(lru', key).value = cacheHistory.written[key]
              ELSE cacheCall'.hit = "null" /\ lru' = lru
    ]_vars

(* A vector of two elements that was stored and then evicted from the LRU
   has been read back from the store, which put its key back into the LRU *)
C24_Witness ==
  /\ pc = "embeddingCache"
  /\ cacheCall.op = "get"
  /\ cacheCall.hit = "disk"
  /\ Len(cacheCall.value) = 2
  /\ cacheCall.key \in LruKeys(lru)
  /\ Len(lru) = LruLimit

(* The key of the LRU that was set or found least recently *)
LeastRecentlyUsed(map) ==
  CHOOSE key \in LruKeys(map) :
    \A other \in LruKeys(map) :
      cacheHistory.lastUse[key] <= cacheHistory.lastUse[other]

(* C25: the LRU never holds more than `limit` keys; a call that overflows it
   removes exactly the key set or found least recently; setting a key the
   LRU holds replaces its value and keeps the size. *)
C25_LruEvictsLeastRecentlyUsed ==
  [][ CacheStep
        => /\ Len(lru') <= LruLimit
           /\ Cardinality(LruKeys(lru')) = Len(lru')
           /\ \/ LruKeys(lru) \subseteq LruKeys(lru')
              \/ LruKeys(lru) \ LruKeys(lru') = {LeastRecentlyUsed(lru)}
           /\ (LruKeys(lru) \ LruKeys(lru') # {})
                => /\ Len(lru) = LruLimit
                   /\ cacheCall'.key \notin LruKeys(lru)
           /\ (cacheCall'.op = "set" /\ cacheCall'.key \in LruKeys(lru))
                => /\ Len(lru') = Len(lru)
                   /\ LruKeys(lru') = LruKeys(lru)
                   /\ LruEntry(lru', cacheCall'.key).value = cacheCall'.value
    ]_vars

(* A key found in memory was kept by the overflow that followed, which
   removed the key that had become the least recently used *)
C25_Witness ==
  /\ pc = "embeddingCache"
  /\ cacheCall.op = "set"
  /\ cacheCall.key = LruLimit + 2
  /\ LruLimit + 1 \in LruKeys(lru)
  /\ EarlierKeys[2] \notin LruKeys(lru)
  /\ Len(lru) = LruLimit

----------------------------------------------------------------------------
(* Properties of the graph metrics                                         *)

GraphDomains == {domainData[k].domain : k \in 1..Len(domainData)}

HasEdge(source, target) ==
  \E k \in 1..Len(connections) :
     connections[k].source = source /\ connections[k].target = target

(* The ordered pairs (a, b) of distinct domains with a -> mid and mid -> b *)
PathsThrough(mid) ==
  {pair \in GraphDomains \X GraphDomains :
     pair[1] # pair[2] /\ HasEdge(pair[1], mid) /\ HasEdge(mid, pair[2])}

MetricsComputed == pc \in {"done", "graphMetricsDone"}

(* C26: the hub score of every domain is the number of ordered pairs (a, b) of
   distinct domains with an edge a -> mid and an edge mid -> b; at most five
   hubs are reported, in non-increasing order of score, each with the score
   of its domain; a domain with no incoming or no outgoing edge scores 0 *)
C26_HubScoresCountPathsThrough ==
  MetricsComputed =>
    /\ DOMAIN graphMetrics.betweenness = GraphDomains
    /\ \A mid \in GraphDomains :
         /\ graphMetrics.betweenness[mid] = Cardinality(PathsThrough(mid))
         /\ (  (\A a \in GraphDomains : ~HasEdge(a, mid))
             \/ (\A b \in GraphDomains : ~HasEdge(mid, b)))
              => graphMetrics.betweenness[mid] = 0
    /\ Len(graphMetrics.hubs) <= 5
    /\ Len(graphMetrics.hubs) = Min2(5, Cardinality(GraphDomains))
    /\ \A k \in 1..Len(graphMetrics.hubs) :
         /\ graphMetrics.hubs[k].domain \in GraphDomains
         /\ graphMetrics.hubs[k].score =
              graphMetrics.betweenness[graphMetrics.hubs[k].domain]
         /\ k > 1 => graphMetrics.hubs[k - 1].score >= graphMetrics.hubs[k].score
         /\ \A d \in GraphDomains \ {graphMetrics.hubs[j].domain :
                                        j \in 1..Len(graphMetrics.hubs)} :
              graphMetrics.betweenness[d] <= graphMetrics.hubs[k].score

(* Six domains of which five are reported, with scores that differ, and a
   domain that lies on a path between two others and on a path back to the
   domain it was entered from *)
C26_Witness ==
  /\ pc = "graphMetricsDone"
  /\ Cardinality(GraphDomains) > Len(graphMetrics.hubs)
  /\ graphMetrics.hubs[1].score > graphMetrics.hubs[2].score
  /\ graphMetrics.hubs[2].score > graphMetrics.hubs[5].score
  /\ \E mid \in GraphDomains, a \in GraphDomains :
       /\ HasEdge(a, mid) /\ HasEdge(mid, a)
       /\ graphMetrics.betweenness[mid] > 0

----------------------------------------------------------------------------
(* Properties of the transition loop                                       *)

(* An iteration of the loop of processHistoryData that went on to i + 1 *)
IterationDone == pc = "transitionLoop" /\ i' = i + 1

(* C27: every iteration whose index is a multiple of 50 updates the loading
   text (and yields) before the next index is processed, whatever the domains
   of the two visits *)
C27_ProgressAtEveryFiftiethIndex ==
  [][(IterationDone /\ i % 50 = 0)
       => loading' = [text |-> "Analyzing transitions", i |-> i]]_vars

(* The transitions of the log that fell on the key of an edge, in order *)
TransitionsOf(edge) ==
  SelectSeq(transitionLog,
            LAMBDA t : connectionKey(t.source, t.target) = edge.key)

(* What the first transition on its ordered pair made of the edge is kept *)
KeepsFirstType(edge) ==
  LET first == TransitionsOf(edge)[1]
  IN /\ first.source = edge.source
     /\ first.target = edge.target
     /\ edge.transitionType = first.transitionType
     /\ edge.color = TRANSITION_COLORS[first.transitionType]
     /\ edge.weight = Len(TransitionsOf(edge))

StatsSumToEdges ==
  /\ transitions.total = Len(connections)
  /\ transitions.related + transitions.topic_shift + transitions.context_switch
       = transitions.total

ReturnedEdgesKeepFirstType ==
  /\ \A k \in 1..Len(connections) : KeepsFirstType(connections[k])
  /\ StatsSumToEdges

(* A later transition on an existing edge changes at most its weight, its
   lastTime and its similarity *)
EdgesKeepType ==
  \A k \in 1..Len(connections) :
     /\ k <= Len(connections')
     /\ connections'[k] \in
          {[connections[k] EXCEPT !.weight = w, !.lastTime = t, !.similarity = v] :
             w \in {connections[k].weight, connections[k].weight + 1},
             t \in {connections[k].lastTime, sortedHistory[i + 2].lastVisitTime},
             v \in {connections[k].similarity} \cup
                    {o.sim : o \in AnalyzerOutcomes} \cup
                    {calculateBasicSimilarity(sortedHistory[i + 1],
                                              sortedHistory[i + 2])}}

(* C28: an edge keeps the transitionType and the colour of the first
   transition on its ordered pair, later transitions on the pair change only
   weight, lastTime and similarity, and the counts per type of
   calculateTransitionStats add up to the number of edges *)
C28_EdgeKeepsFirstTransitionType ==
  [][/\ IterationDone => EdgesKeepType
     /\ (pc' = "done") => ReturnedEdgesKeepFirstType']_vars

(* An edge made of two transitions on its pair, the later one classified
   differently from the first *)
C28_Witness ==
  /\ pc = "done"
  /\ \E k \in 1..Len(connections) :
       LET on == TransitionsOf(connections[k])
       IN /\ Len(on) >= 2
          /\ on[2].source = connections[k].source
          /\ on[2].target = connections[k].target
          /\ on[2].transitionType # connections[k].transitionType
          /\ connections[k].weight = 2
          /\ transitions.total = 2

----------------------------------------------------------------------------
(* Properties of the two segmentations                                     *)

(* The focus session that holds the k-th event of the sorted visit events *)
FocusSessionOf(sorted, k) ==
  CHOOSE n \in 1..Len(focusSessions) :
    \E j \in 1..Len(focusSessions[n].events) :
       focusSessions[n].events[j].id = sorted[k].id

LongGap(sorted, k) == sorted[k + 1].time - sorted[k].time > 5 * 60 * 1000

(* C29: the focus sessions refine the temporal sessions: two consecutive
   sorted events more than five minutes apart are in different focus
   sessions, and there are at least as many focus sessions as temporal
   sessions *)
C29_FocusSessionsRefineTemporalSessions ==
  pc = "done" =>
    LET sorted == SortByTime(visitEvents)
    IN /\ \A k \in 1..Len(sorted) :
            \E n \in 1..Len(focusSessions) :
               \E j \in 1..Len(focusSessions[n].events) :
                  focusSessions[n].events[j].id = sorted[k].id
       /\ \A k \in 1..(Len(sorted) - 1) :
            /\ FocusSessionOf(sorted, k) <= FocusSessionOf(sorted, k + 1)
            /\ LongGap(sorted, k)
                 => FocusSessionOf(sorted, k) # FocusSessionOf(sorted, k + 1)
       /\ Len(focusSessions) >= Len(SessionLengths(sorted))

(* Visits of one domain more than five minutes apart, and a temporal session
   that is split into two focus sessions *)
C29_Witness ==
  /\ pc = "done"
  /\ LET sorted == SortByTime(visitEvents)
     IN /\ \E k \in 1..(Len(sorted) - 1) :
             LongGap(sorted, k) /\ sorted[k].domain = sorted[k + 1].domain
        /\ Len(SessionLengths(sorted)) = 2
        /\ Len(focusSessions) = 3

----------------------------------------------------------------------------
(* Properties of the worker protocol                                       *)

RepliesTo(id) == {k \in 1..Len(replies) : replies[k].id = id}

(* A reply carries the id of a received message and either the result of the
   handler of that message or an error, never both *)
WellFormedReply(reply) ==
  /\ reply.id \in 1..Len(requests)
  /\ \/ /\ DOMAIN reply = {"id", "result"}
        /\ reply.result = IF requests[reply.id].type = "other"
                          THEN [error |-> "unknown type"]
                          ELSE [of |-> requests[reply.id].type]
     \/ DOMAIN reply = {"id", "error"}

RepliesAreWellFormed ==
  /\ \A k \in 1..Len(replies) : WellFormedReply(replies[k])
  /\ \A id \in 1..MaxMessages : Cardinality(RepliesTo(id)) <= 1

(* C30: every message the worker receives is eventually answered by exactly
   one reply with its id, holding a result or an error and never both, also
   for unknown types and for handlers that throw, and the replies of
   concurrent requests are not mixed up *)
C30_EveryMessageGetsOneReply ==
  /\ []RepliesAreWellFormed
  /\ \A id \in 1..MaxMessages :
       (Len(requests) >= id) ~> (Cardinality(RepliesTo(id)) = 1)

====
